---- MODULE Spec2Model ----
(***************************************************************************)
(* Indexing coordinators of the document store:                            *)
(*   - the flag-based throttle of core/tasks/search.py,                    *)
(*   - the counter-based debounce of core/tasks/find.py,                   *)
(*   - the post_save handlers of core/signals.py, run in database          *)
(*     sessions with and without an open transaction,                      *)
(*   - the batched indexer BaseDocumentIndexer.index and the access         *)
(*     resolution of core/services/search_indexers.py, over flat tables     *)
(*     and over trees of documents with soft-deletions,                     *)
(*   - get_visited_document_ids_of and the search view that calls it and    *)
(*     BaseDocumentIndexer.search, with and without an indexer.             *)
(* Each trigger and each deferred job is a process whose steps are the     *)
(* cache, queue, database and index operations of the code, so that        *)
(* concurrent callers and workers interleave between those operations.     *)
(* The cache is one key space: cache.add, cache.incr, cache.decr and        *)
(* cache.set are single atomic operations on a key, a key with a timeout    *)
(* can disappear at any moment after it was stored, and the lock of         *)
(* cache.locks(key) is itself an entry stored under `key` (as a Redis lock  *)
(* is), deleted again on release.                                           *)
(***************************************************************************)
EXTENDS Integers, FiniteSets, Sequences, TLC

(* ------------------------------ bounds -------------------------------- *)
\* triggers issued in one behaviour (per coordinator)
MaxTriggers == 2
\* highest version a document reaches (every save gives the next version)
MaxVer == 2
\* TTL expiries of one cache key in one behaviour
MaxExpire == 1
\* saves issued in one behaviour of the signal handlers
MaxSaves == 2
\* highest identifier of a Document row
MaxId == 5
\* largest batch size an indexer is built with
MaxBatch == 2
\* rows inserted or deleted while one run of index() is under way
MaxWrites == 2
\* DocumentAccess rows in the store during one access resolution
MaxGrants == 3
\* paths passed to one access resolution
MaxPaths == 3
\* documents of the store in the runs over a tree of documents
MaxNodes == 3
\* rows of the DocumentAccess table in those runs
MaxTreeGrants == 2
\* rows of the LinkTrace table
MaxTraces == 2
\* ids in a response of the external index
MaxFound == 3
\* page numbers a search request asks for
MaxPage == 3
\* page sizes a search request asks for
MaxPageSize == 2
\* calls of push and search_query made on one indexer
MaxCalls == 2
\* triggers, jobs and expiries in one behaviour of the two documents
MaxKeyOps == 5
\* saves of one item in one behaviour of the batch throttle
MaxItemSaves == 1

Docs == {"d1"}
\* processes that call trigger_document_indexer (request handlers)
Callers == {"t1", "t2"}
\* celery workers that run document_indexer_task
Workers == {"w1", "w2"}
\* cooldown windows of a throttle key: window w ends at the (w+1)-th expiry
Windows == 0..MaxExpire
\* the versions a document goes through
Versions == 1..MaxVer
\* database sessions (request threads) that save rows
Sessions == {"s1", "s2"}
\* identifiers of Document rows
Ids == 1..MaxId
\* batch sizes: settings.SEARCH_INDEXER_BATCH_SIZE or the constructor argument
BatchSizes == 1..MaxBatch

VARIABLES
    SEARCH_INDEXER_CLASS, \* settings.SEARCH_INDEXER_CLASS is set
    indexerConfigured,    \* the URL / secret settings let the class construct
    cacheIsRedis,         \* isinstance(cache, RedisCache)
    docExists,            \* Document row present
    docVer,               \* state of the Document row (version number)
    throttleKey,          \* cache entry "doc-indexer-throttle-<id>"
    caller,               \* trigger_document_indexer call of each caller
    queue,                \* jobs sent by apply_async, not yet started
    worker,               \* document_indexer_task run of each worker
    win,                  \* current cooldown window of each document
    nTrig,                \* triggers issued so far
    nAcq,                 \* successful acquires per document and window
    nSched,               \* jobs scheduled per document and window
    nPush,                \* pushes per document and window
    lastTrigVer,          \* document version at the latest trigger
    lastPushVer,          \* document version carried by the latest push
    debounceKey,          \* cache entry "doc-indexer-debounce-<id>"
    dcaller,              \* find.trigger_document_indexer call of each caller
    dqueue,               \* find jobs sent by apply_async, not yet started
    dworker,              \* find.document_indexer_task run of each worker
    dTrig,                \* debounce triggers issued so far
    dExp,                 \* expiries of the debounce key so far
    burst,                \* what happened in the current burst of a document
    lastJob,              \* how the latest finished find job of a document ended
    session,              \* transaction state of each database session
    nSaves,               \* saves issued so far
    nCommitted,           \* committed saves made while an indexer was available
    nTriggered,           \* calls of find.trigger_document_indexer per document
    nDeferred,            \* those of them that waited for a commit
    nDropped,             \* registered triggers discarded by a rollback
    rows,                 \* the Document table: row of each identifier
    scope,                \* the queryset argument of index()
    batch_size,           \* self.batch_size
    run,                  \* the call of index(): position and local variables
    pages,                \* the pages fetched by the run, in order
    pushes,               \* the batches handed to push(), in order
    nWrites,              \* rows inserted or deleted during the run
    tree,                 \* path and soft-delete markers of each Document
    grants,               \* the DocumentAccess table
    paths,                \* argument of get_batch_accesses_by_users_and_teams
    resolved,             \* its result, once it has returned
    user,                 \* request.user of the search request
    linktraces,           \* the LinkTrace table
    visited,              \* result of get_visited_document_ids_of
    corpus,               \* title and updated_at of each Document
    authorized,           \* the documents the requester may see
    found,                \* the response of the external index to a query
    request,              \* q, page and page_size of the search request
    response,             \* what the search view answers
    indexerSettings,      \* SEARCH_INDEXER_URL, _SECRET and _QUERY_URL
    construction,         \* how a call of the indexer class ended
    http,                 \* the calls of push and search_query
    kcache,               \* the cache, entry by entry, for two documents
    kjobs,                \* their jobs sent by apply_async, not yet started
    kpc,                  \* position of each document's trigger
    kact,                 \* the latest operation and the document it was for
    kops,                 \* operations so far
    SEARCH_INDEXER_COUNTDOWN, \* settings.SEARCH_INDEXER_COUNTDOWN
    now,                  \* the clock that save() reads for updated_at
    items,                \* committed updated_at of each item (0: no row)
    bcaller,              \* the session of each item: save, commit, trigger
    batchKey,             \* cache entry "document-batch-indexer-throttle"
    bwin,                 \* current cooldown window of the batch flag
    bqueue,               \* batch jobs sent by apply_async, not yet started
    bwindow,              \* what happened in each cooldown window
    bskips,               \* the triggers skipped on the flag
    bindexed              \* updated_at of each item as last pushed

settingsVars == <<SEARCH_INDEXER_CLASS, indexerConfigured, cacheIsRedis>>
docVars == <<docExists, docVer>>
throttleVars == <<throttleKey, caller, queue, worker, win, nTrig, nAcq, nSched,
                  nPush, lastTrigVer, lastPushVer>>
debounceVars == <<debounceKey, dcaller, dqueue, dworker, dTrig, dExp, burst,
                  lastJob>>
signalVars == <<session, nSaves, nCommitted, nTriggered, nDeferred, nDropped>>
indexVars == <<rows, scope, batch_size, run, pages, pushes, nWrites, tree>>
accessVars == <<grants, paths, resolved>>
searchVars == <<user, linktraces, visited, corpus, authorized, found, request,
                response>>
serviceVars == <<indexerSettings, construction, http>>
keyVars == <<kcache, kjobs, kpc, kact, kops>>
batchVars == <<SEARCH_INDEXER_COUNTDOWN, now, items, bcaller, batchKey, bwin,
               bqueue, bwindow, bskips, bindexed>>
extraVars == <<serviceVars, keyVars, batchVars>>
otherVars == <<signalVars, indexVars, accessVars, searchVars, extraVars>>
coreVars == <<settingsVars, docVars, throttleVars, debounceVars, extraVars>>
vars == <<coreVars, otherVars>>

(* ------------------------ services/search_indexers --------------------- *)
\* get_document_indexer(): None when the class setting is empty, or when the
\* class raises ImproperlyConfigured; an instance otherwise.
get_document_indexer ==
    IF ~SEARCH_INDEXER_CLASS THEN "None"
    ELSE IF indexerConfigured THEN "instance" ELSE "None"

\* default_document_indexer(): the indexer when the class setting and the
\* URL / secret settings are valid, None otherwise
default_document_indexer ==
    IF SEARCH_INDEXER_CLASS /\ indexerConfigured THEN "instance" ELSE "None"

(* ------------------------------ signals.py ----------------------------- *)
\* a session outside transaction.atomic(): saves: the uncommitted saves;
\* callbacks: the functions registered by transaction.on_commit; ready: the
\* functions the connection is running now
IdleSession == [atomic |-> FALSE, saves |-> <<>>, callbacks |-> <<>>, ready |-> <<>>]

(* --------------------- BaseDocumentIndexer.index ----------------------- *)
\* no Document row with this identifier
NoRow == [present |-> FALSE, title |-> "None", content |-> ""]

\* every document is a root (its path is the one segment of its own
\* identifier) and no document is soft-deleted
FlatTree ==
    [i \in Ids |-> [path |-> <<i>>, deleted_at |-> FALSE,
                    ancestors_deleted_at |-> FALSE]]

\* the local variables of index() before the call
IdleRun ==
    [pc |-> "idle", queryset |-> "None", last_id |-> 0, count |-> 0,
     batch |-> {}, result |-> -1, error |-> "none"]

(* ---------------- get_batch_accesses_by_users_and_teams ---------------- *)
\* no result yet
NotResolved == [done |-> FALSE, map |-> <<>>]

(* ----------------------------- search ---------------------------------- *)
\* get_visited_document_ids_of has not been called
NotVisited == [done |-> FALSE, ids |-> <<>>]

\* a Document whose title and updated_at the search does not read
NoText == [title |-> <<>>, updated_at |-> 0]

\* no search request
NoRequest == [q |-> <<>>, page |-> 1, page_size |-> 1]

\* no answer yet; query: the bodies of the queries sent to the external index
NoResponse == [status |-> 0, results |-> <<>>, count |-> 0, query |-> <<>>]

(* ----------------------- tasks/search.py: throttle --------------------- *)
IdleCaller ==
    [pc |-> "idle", doc |-> "none", res |-> FALSE, win |-> 0,
     absent |-> FALSE, alone |-> FALSE, failed |-> FALSE, after |-> "none",
     last |-> "none"]

IdleWorker ==
    [pc |-> "idle", doc |-> "none", win |-> 0, indexer |-> "none",
     fetch |-> "none", ver |-> 0, resolved |-> FALSE, serialized |-> FALSE,
     pushed |-> FALSE, error |-> "none"]

\* a caller is inside indexer_throttle_acquire for document d
InAcquire(p, d) ==
    caller[p].doc = d /\ caller[p].pc \in {"acquire", "locked", "release"}

\* a job of window w of document d has ended on an error raised by its push
JobFailedIn(d, w) ==
    \E x \in Workers :
        /\ worker[x].pc = "done" /\ worker[x].error = "HTTPError"
        /\ worker[x].doc = d /\ worker[x].win = w

\* cache.add(key, 1, timeout): true exactly when the key holds nothing; the
\* lock of cache.locks(key) is stored under the same key and counts as present.
AddSucceedsAlways(k) == TRUE
AddSucceeds(k) == k = "absent"

\* trigger_document_indexer returns at once when no indexer class is set
IndexingDisabledNever == FALSE
IndexingDisabled == ~SEARCH_INDEXER_CLASS

\* trigger_document_indexer schedules a job only when the acquire succeeded
ShouldScheduleAlways(res) == TRUE
ShouldSchedule(res) == res

\* a counter key: missing from the cache, or holding an integer
AbsentKey == [set |-> FALSE, val |-> 0]
StoredKey(n) == [set |-> TRUE, val |-> n]

IdleDCaller == [pc |-> "idle", doc |-> "none", ver |-> 0]

IdleDWorker ==
    [pc |-> "idle", doc |-> "none", tv |-> 0, idx |-> 0, runVer |-> 0, ver |-> 0]

\* how a job ended: what its fetch found, the error it raised, whether it
\* pushed; a job stopped by the counter gate ends like this, as no job does
NoJob == [fetch |-> "none", error |-> "none", pushed |-> FALSE]

\* a burst: the triggers of a document from an idle coordinator until all
\* of their jobs are over.  trig: triggers; ran: jobs that ran their decrement;
\* late: a trigger and a job overlapped, or a trigger came after a job;
\* overlap: two triggers overlapped; exp: the key expired; push: the jobs that
\* pushed, by their order of running; trigVer: the document at the latest
\* trigger; pushVer, pushFloor, pushTv: of the latest push, the document
\* pushed, the document when its job began, the document at its job's trigger
NoBurst ==
    [trig |-> 0, ran |-> 0, late |-> FALSE, overlap |-> FALSE, exp |-> FALSE,
     push |-> {}, trigVer |-> 0, pushVer |-> 0, pushFloor |-> 0, pushTv |-> 0]

\* the values a setting of the indexer can have: not set, empty, or a value
SettingValues == {"None", "", "set"}

\* the three settings an indexer reads, all set
AllSet ==
    [SEARCH_INDEXER_URL |-> "set", SEARCH_INDEXER_SECRET |-> "set",
     SEARCH_INDEXER_QUERY_URL |-> "set"]

\* the indexer class has not been called
NotConstructed ==
    [done |-> FALSE, result |-> "none", error |-> "none", about |-> "none"]

\* no call of push or search_query yet.  calls: calls begun; attempts:
\* requests sent; transport: how the latest request ended; raised: the
\* exception the latest call ended on
NoCall ==
    [call |-> "none", pc |-> "idle", calls |-> 0, attempts |-> 0,
     transport |-> "none", raised |-> "none"]

\* no indexer is constructed and no HTTP call is made
ServiceIdle ==
    /\ indexerSettings = AllSet
    /\ construction = NotConstructed
    /\ http = NoCall

\* two documents with different primary keys
KeyDocs == {"d1", "d2"}

\* key = f"doc-indexer-throttle-{document_id}": the prefix, then the id; or
\* a key without the id
indexer_throttle_keyShared(document_id) == <<"doc-indexer-throttle-">>
indexer_throttle_key(document_id) == <<"doc-indexer-throttle-", document_id>>

\* f"doc-indexer-debounce-{document_id}"
document_indexer_debounce_key(document_id) ==
    <<"doc-indexer-debounce-", document_id>>

\* the keys the triggers and jobs of the two documents use
Keys ==
    {indexer_throttle_key(d) : d \in KeyDocs}
        \cup {document_indexer_debounce_key(d) : d \in KeyDocs}

\* a cache entry: missing; a value; the lock of cache.locks(key)
NoEntry == [set |-> FALSE, val |-> 0, lock |-> FALSE]
ValueEntry(n) == [set |-> TRUE, val |-> n, lock |-> FALSE]
LockEntry == [set |-> TRUE, val |-> 0, lock |-> TRUE]

NoJobs == [throttle |-> 0, debounce |-> 0, pushed |-> 0]
NoOperation == [doc |-> "none", op |-> "none"]

\* an empty cache, no job and no trigger for the two documents
KeysIdle ==
    /\ kcache = [k \in Keys |-> NoEntry]
    /\ kjobs = [d \in KeyDocs |-> NoJobs]
    /\ kpc = [d \in KeyDocs |-> "idle"]
    /\ kact = NoOperation
    /\ kops = 0

\* the items: two documents and the main workspace of a user
ItemIds == {"a", "b", "m"}

\* the session of an item.  updated_at: the value its save() has set;
\* res, win: result and window of its acquire; last: how its trigger ended
IdleBCaller ==
    [pc |-> "idle", updated_at |-> 0, saves |-> 0, res |-> FALSE, win |-> 0,
     last |-> "none"]

\* a cooldown window.  acq: successful acquires; by, acqTs: the item that
\* acquired and its updated_at; sched: jobs scheduled; ts: the timestamp the
\* job was scheduled with; ran: the job has run
NoWindow ==
    [acq |-> 0, by |-> "none", acqTs |-> 0, sched |-> 0, ts |-> 0, ran |-> FALSE]

\* no item is saved and the batch flag is absent
BatchIdle ==
    /\ SEARCH_INDEXER_COUNTDOWN = 1
    /\ now = 1
    /\ items = [i \in ItemIds |-> 0]
    /\ bcaller = [i \in ItemIds |-> IdleBCaller]
    /\ batchKey = "absent"
    /\ bwin = 0
    /\ bqueue = {}
    /\ bwindow = [w \in Windows |-> NoWindow]
    /\ bskips = {}
    /\ bindexed = [i \in ItemIds |-> 0]

ExtraIdle == ServiceIdle /\ KeysIdle /\ BatchIdle

\* no trigger and no job yet, with either cache backend
CoordinatorsIdle ==
    /\ cacheIsRedis \in BOOLEAN
    /\ docVer = [d \in Docs |-> 1]
    /\ throttleKey = [d \in Docs |-> "absent"]
    /\ caller = [p \in Callers |-> IdleCaller]
    /\ queue = {}
    /\ worker = [w \in Workers |-> IdleWorker]
    /\ win = [d \in Docs |-> 0]
    /\ nTrig = 0
    /\ nAcq = [d \in Docs |-> [w \in Windows |-> 0]]
    /\ nSched = [d \in Docs |-> [w \in Windows |-> 0]]
    /\ nPush = [d \in Docs |-> [w \in Windows |-> 0]]
    /\ lastTrigVer = [d \in Docs |-> 0]
    /\ lastPushVer = [d \in Docs |-> 0]
    /\ debounceKey = [d \in Docs |-> AbsentKey]
    /\ dcaller = [p \in Callers |-> IdleDCaller]
    /\ dqueue = [d \in Docs |-> [v \in Versions |-> 0]]
    /\ dworker = [w \in Workers |-> IdleDWorker]
    /\ dTrig = 0
    /\ dExp = 0
    /\ burst = [d \in Docs |-> NoBurst]
    /\ lastJob = [d \in Docs |-> NoJob]

\* the same, and nothing else under way
CoreIdle == CoordinatorsIdle /\ ExtraIdle

\* the same, with an indexer class that is set and constructs
CoreInit ==
    /\ SEARCH_INDEXER_CLASS = TRUE
    /\ indexerConfigured = TRUE
    /\ CoreIdle

\* no session has saved anything yet
SignalsIdle ==
    /\ session = [s \in Sessions |-> IdleSession]
    /\ nSaves = 0
    /\ nCommitted = [d \in Docs |-> 0]
    /\ nTriggered = [d \in Docs |-> 0]
    /\ nDeferred = 0
    /\ nDropped = 0

\* index() is not called
IndexIdle ==
    /\ rows = [i \in Ids |-> NoRow]
    /\ scope = "None"
    /\ batch_size = 1
    /\ run = IdleRun
    /\ pages = <<>>
    /\ pushes = <<>>
    /\ nWrites = 0
    /\ tree = FlatTree

\* get_batch_accesses_by_users_and_teams is not called
AccessIdle ==
    /\ grants = {}
    /\ paths = {}
    /\ resolved = NotResolved

\* no search request is made
SearchIdle ==
    /\ user = "AnonymousUser"
    /\ linktraces = {}
    /\ visited = NotVisited
    /\ corpus = [i \in Ids |-> NoText]
    /\ authorized = {}
    /\ found = <<>>
    /\ request = NoRequest
    /\ response = NoResponse

\* the documents the coordinators are triggered for are in the store
DocsStored == docExists = [d \in Docs |-> TRUE]

Init == CoreInit /\ DocsStored /\ SignalsIdle /\ SearchIdle /\ IndexIdle /\ AccessIdle

\* trigger_document_indexer(document), up to the call of the acquire
TriggerStart(p, d) ==
    /\ caller[p].pc = "idle"
    /\ nTrig < MaxTriggers
    /\ docExists[d]
    /\ nTrig' = nTrig + 1
    /\ IF IndexingDisabled
       THEN /\ caller' = [caller EXCEPT ![p] = [IdleCaller EXCEPT !.last = "disabled"]]
            /\ UNCHANGED lastTrigVer
       ELSE /\ caller' =
                [q \in Callers |->
                    IF q = p
                    THEN [IdleCaller EXCEPT
                            !.pc = "acquire", !.doc = d,
                            !.absent = (throttleKey[d] = "absent"),
                            !.failed = JobFailedIn(d, win[d]),
                            !.alone = \A r \in Callers \ {p} : ~InAcquire(r, d)]
                    ELSE IF InAcquire(q, d)
                         THEN [caller[q] EXCEPT !.alone = FALSE]
                         ELSE caller[q]]
            /\ lastTrigVer' = [lastTrigVer EXCEPT ![d] = docVer[d]]
    /\ UNCHANGED <<otherVars, debounceVars, settingsVars, docVars, throttleKey, queue, worker, win,
                   nAcq, nSched, nPush, lastPushVer>>

\* indexer_throttle_acquire, cache without locks: the add-if-absent alone
AddPlain(p) ==
    LET d == caller[p].doc
        ok == AddSucceeds(throttleKey[d])
    IN  /\ caller[p].pc = "acquire"
        /\ ~cacheIsRedis
        /\ throttleKey' = [throttleKey EXCEPT ![d] = IF ok THEN "flag" ELSE @]
        /\ nAcq' = [nAcq EXCEPT ![d][win[d]] = IF ok THEN @ + 1 ELSE @]
        /\ caller' = [caller EXCEPT ![p].pc = "decide", ![p].res = ok,
                         ![p].win = win[d], ![p].after = throttleKey'[d]]
        /\ UNCHANGED <<otherVars, debounceVars, settingsVars, docVars, queue, worker, win, nTrig,
                       nSched, nPush, lastTrigVer, lastPushVer>>

\* indexer_throttle_acquire on RedisCache: enter `with cache.locks(key)`; the
\* lock is taken under the key itself and blocks while the key holds a value
AcquireLock(p) ==
    LET d == caller[p].doc
    IN  /\ caller[p].pc = "acquire"
        /\ cacheIsRedis
        /\ throttleKey[d] = "absent"
        /\ throttleKey' = [throttleKey EXCEPT ![d] = "lock"]
        /\ caller' = [caller EXCEPT ![p].pc = "locked"]
        /\ UNCHANGED <<otherVars, debounceVars, settingsVars, docVars, queue, worker, win, nTrig, nAcq,
                       nSched, nPush, lastTrigVer, lastPushVer>>

\* the recursive call with atomic=False, under the lock: cache.add
AddUnderLock(p) ==
    LET d == caller[p].doc
        ok == AddSucceeds(throttleKey[d])
    IN  /\ caller[p].pc = "locked"
        /\ throttleKey' = [throttleKey EXCEPT ![d] = IF ok THEN "flag" ELSE @]
        /\ nAcq' = [nAcq EXCEPT ![d][win[d]] = IF ok THEN @ + 1 ELSE @]
        /\ caller' = [caller EXCEPT ![p].pc = "release", ![p].res = ok,
                         ![p].win = win[d]]
        /\ UNCHANGED <<otherVars, debounceVars, settingsVars, docVars, queue, worker, win, nTrig,
                       nSched, nPush, lastTrigVer, lastPushVer>>

\* leaving the `with` block releases the lock: its key is deleted
ReleaseLock(p) ==
    LET d == caller[p].doc
    IN  /\ caller[p].pc = "release"
        /\ throttleKey' = [throttleKey EXCEPT ![d] = IF @ = "lock" THEN "absent" ELSE @]
        /\ caller' = [caller EXCEPT ![p].pc = "decide", ![p].after = throttleKey'[d]]
        /\ UNCHANGED <<otherVars, debounceVars, settingsVars, docVars, queue, worker, win, nTrig, nAcq,
                       nSched, nPush, lastTrigVer, lastPushVer>>

\* trigger_document_indexer after the acquire: apply_async, or skip
Decide(p) ==
    LET d == caller[p].doc
        w == caller[p].win
    IN  /\ caller[p].pc = "decide"
        /\ IF ShouldSchedule(caller[p].res)
           THEN /\ queue' = queue \cup {[doc |-> d, win |-> w, n |-> nSched[d][w] + 1]}
                /\ nSched' = [nSched EXCEPT ![d][w] = @ + 1]
                /\ caller' = [caller EXCEPT ![p] =
                      [IdleCaller EXCEPT !.doc = d, !.win = w, !.last = "scheduled"]]
           ELSE /\ caller' = [caller EXCEPT ![p] =
                      [IdleCaller EXCEPT !.doc = d, !.win = w, !.last = "skipped"]]
                /\ UNCHANGED <<queue, nSched>>
        /\ UNCHANGED <<otherVars, debounceVars, settingsVars, docVars, throttleKey, worker, win, nTrig,
                       nAcq, nPush, lastTrigVer, lastPushVer>>

\* the flag's TTL runs out: the only way the flag goes away
Expire(d) ==
    /\ throttleKey[d] = "flag"
    /\ win[d] < MaxExpire
    /\ throttleKey' = [throttleKey EXCEPT ![d] = "absent"]
    /\ win' = [win EXCEPT ![d] = @ + 1]
    /\ UNCHANGED <<otherVars, debounceVars, settingsVars, docVars, caller, queue, worker, nTrig, nAcq,
                   nSched, nPush, lastTrigVer, lastPushVer>>

\* document_indexer_task starts: get_document_indexer(), return on None
JobStart(w) ==
    /\ worker[w].pc \in {"idle", "done"}
    /\ \E j \in queue :
        /\ queue' = queue \ {j}
        /\ worker' = [worker EXCEPT ![w] =
              [IdleWorker EXCEPT
                 !.pc = IF get_document_indexer = "None" THEN "done" ELSE "fetch",
                 !.doc = j.doc, !.win = j.win,
                 !.indexer = get_document_indexer]]
    /\ UNCHANGED <<otherVars, debounceVars, settingsVars, docVars, throttleKey, caller, win, nTrig,
                   nAcq, nSched, nPush, lastTrigVer, lastPushVer>>

\* Document.objects.get(pk): the row as it is now; DoesNotExist is caught
\* and ends the task
JobFetchRaises(w) ==
    LET d == worker[w].doc
    IN  /\ worker[w].pc = "fetch"
        /\ IF docExists[d]
           THEN worker' = [worker EXCEPT ![w].pc = "serialize",
                              ![w].fetch = "found", ![w].ver = docVer[d]]
           ELSE worker' = [worker EXCEPT ![w].pc = "done", ![w].fetch = "missing",
                              ![w].error = "DoesNotExist"]
        /\ UNCHANGED <<otherVars, debounceVars, settingsVars, docVars, throttleKey, caller, queue, win,
                       nTrig, nAcq, nSched, nPush, lastTrigVer, lastPushVer>>
JobFetch(w) ==
    LET d == worker[w].doc
    IN  /\ worker[w].pc = "fetch"
        /\ IF docExists[d]
           THEN worker' = [worker EXCEPT ![w].pc = "serialize",
                              ![w].fetch = "found", ![w].ver = docVer[d]]
           ELSE worker' = [worker EXCEPT ![w].pc = "done", ![w].fetch = "missing"]
        /\ UNCHANGED <<otherVars, debounceVars, settingsVars, docVars, throttleKey, caller, queue, win,
                       nTrig, nAcq, nSched, nPush, lastTrigVer, lastPushVer>>

\* get_batch_accesses_by_users_and_teams((doc.path,)) and serialize_document
JobSerialize(w) ==
    /\ worker[w].pc = "serialize"
    /\ worker' = [worker EXCEPT ![w].pc = "push", ![w].resolved = TRUE,
                     ![w].serialized = TRUE]
    /\ UNCHANGED <<otherVars, debounceVars, settingsVars, docVars, throttleKey, caller, queue, win,
                   nTrig, nAcq, nSched, nPush, lastTrigVer, lastPushVer>>

\* indexer.push(data)
JobPush(w) ==
    LET d == worker[w].doc
    IN  /\ worker[w].pc = "push"
        /\ worker' = [worker EXCEPT ![w].pc = "done", ![w].pushed = TRUE,
                         ![w].ver = 0]
        /\ nPush' = [nPush EXCEPT ![d][worker[w].win] = @ + 1]
        /\ lastPushVer' = [lastPushVer EXCEPT ![d] = worker[w].ver]
        /\ UNCHANGED <<otherVars, debounceVars, settingsVars, docVars, throttleKey, caller, queue, win,
                       nTrig, nAcq, nSched, lastTrigVer>>


\* indexer.push(data) raises (transport failure, or raise_for_status on an
\* error status): the task ends on the exception; it touches no cache key
JobPushFails(w) ==
    /\ worker[w].pc = "push"
    /\ worker' = [worker EXCEPT ![w].pc = "done", ![w].error = "HTTPError",
                     ![w].ver = 0]
    /\ UNCHANGED <<otherVars, debounceVars, settingsVars, docVars, throttleKey, caller, queue, win,
                   nTrig, nAcq, nSched, nPush, lastTrigVer, lastPushVer>>

(* ----------------------- tasks/find.py: debounce ----------------------- *)
\* no trigger and no job of the debounce is under way for d
DebounceQuiet(d) ==
    /\ \A p \in Callers : dcaller[p].pc = "idle"
    /\ \A v \in Versions : dqueue[d][v] = 0
    /\ \A w \in Workers : dworker[w].pc = "idle"

\* the gate of document_indexer_task: skip while the counter is still up
SkipsOnCounter(res) == res > 0

\* the document state a job serializes: the row read when the job executes
FetchedAtTrigger(w) == dworker[w].tv
FetchedVersion(w) == docVer[dworker[w].doc]

\* trigger_document_indexer(document, on_commit=False) up to incr_counter's
\* cache.incr(key); a missing key raises ValueError
DTrigger(p, d) ==
    /\ dcaller[p].pc = "idle"
    /\ dTrig < MaxTriggers
    /\ docExists[d]
    /\ dTrig' = dTrig + 1
    /\ burst' = [burst EXCEPT ![d] =
          IF DebounceQuiet(d)
          THEN [NoBurst EXCEPT !.trig = 1, !.trigVer = docVer[d]]
          ELSE [@ EXCEPT !.trig = @ + 1, !.trigVer = docVer[d],
                         !.late = @ \/ burst[d].ran > 0,
                         !.overlap = @ \/ \E q \in Callers : dcaller[q].pc # "idle"]]
    /\ IF ~debounceKey[d].set
       THEN /\ dcaller' = [dcaller EXCEPT ![p] =
                  [pc |-> "incr_set", doc |-> d, ver |-> docVer[d]]]
            /\ UNCHANGED debounceKey
       ELSE /\ debounceKey' = [debounceKey EXCEPT ![d] = StoredKey(@.val + 1)]
            /\ dcaller' = [dcaller EXCEPT ![p] =
                  [pc |-> "schedule", doc |-> d, ver |-> docVer[d]]]
    /\ UNCHANGED <<otherVars, settingsVars, docVars, throttleVars, dqueue, dworker, dExp,
                   lastJob>>

\* incr_counter, except ValueError: cache.set(key, 1)
DIncrSet(p) ==
    LET d == dcaller[p].doc
    IN  /\ dcaller[p].pc = "incr_set"
        /\ debounceKey' = [debounceKey EXCEPT ![d] = StoredKey(1)]
        /\ dcaller' = [dcaller EXCEPT ![p].pc = "schedule"]
        /\ UNCHANGED <<otherVars, settingsVars, docVars, throttleVars, dqueue, dworker,
                       dTrig, dExp, burst, lastJob>>

\* document_indexer_task.apply_async(args=[document.pk], countdown=countdown)
DSchedule(p) ==
    /\ dcaller[p].pc = "schedule"
    /\ dqueue' = [dqueue EXCEPT ![dcaller[p].doc][dcaller[p].ver] = @ + 1]
    /\ dcaller' = [dcaller EXCEPT ![p] = IdleDCaller]
    /\ UNCHANGED <<otherVars, settingsVars, docVars, throttleVars, debounceKey, dworker,
                   dTrig, dExp, burst, lastJob>>

\* the counter key was stored by cache.set without a timeout argument, so it
\* lives for the cache's default timeout and then goes away
DExpire(d) ==
    /\ debounceKey[d].set
    /\ dExp < MaxExpire
    /\ dExp' = dExp + 1
    /\ debounceKey' = [debounceKey EXCEPT ![d] = AbsentKey]
    /\ burst' = [burst EXCEPT ![d].exp = TRUE]
    /\ UNCHANGED <<otherVars, settingsVars, docVars, throttleVars, dcaller, dqueue,
                   dworker, dTrig, lastJob>>

\* a worker runs document_indexer_task(document_id) up to decr_counter's
\* cache.decr(key) and the gate; a missing key raises ValueError
DJobDecr(w) ==
    /\ dworker[w].pc = "idle"
    /\ \E d \in Docs, v \in Versions :
        LET r == debounceKey[d].val - 1
            job == [IdleDWorker EXCEPT !.doc = d, !.tv = v,
                       !.idx = burst[d].ran + 1, !.runVer = docVer[d]]
        IN  /\ dqueue[d][v] > 0
            /\ dqueue' = [dqueue EXCEPT ![d][v] = @ - 1]
            /\ burst' = [burst EXCEPT ![d].ran = @ + 1,
                  ![d].late = @ \/ \E p \in Callers : dcaller[p].pc # "idle"]
            /\ IF ~debounceKey[d].set
               THEN /\ dworker' = [dworker EXCEPT ![w] = [job EXCEPT !.pc = "decr_set"]]
                    /\ UNCHANGED <<debounceKey, lastJob>>
               ELSE /\ debounceKey' = [debounceKey EXCEPT ![d] = StoredKey(r)]
                    /\ IF SkipsOnCounter(r)
                       THEN /\ dworker' = [dworker EXCEPT ![w] = IdleDWorker]
                            /\ lastJob' = [lastJob EXCEPT ![d] = NoJob]
                       ELSE /\ dworker' = [dworker EXCEPT ![w] = [job EXCEPT !.pc = "fetch"]]
                            /\ UNCHANGED lastJob
    /\ UNCHANGED <<otherVars, settingsVars, docVars, throttleVars, dcaller, dTrig, dExp>>

\* decr_counter, except ValueError: cache.set(key, 0), result 0, then the gate
DDecrSet(w) ==
    LET d == dworker[w].doc
    IN  /\ dworker[w].pc = "decr_set"
        /\ debounceKey' = [debounceKey EXCEPT ![d] = StoredKey(0)]
        /\ IF SkipsOnCounter(0)
           THEN /\ dworker' = [dworker EXCEPT ![w] = IdleDWorker]
                /\ lastJob' = [lastJob EXCEPT ![d] = NoJob]
           ELSE /\ dworker' = [dworker EXCEPT ![w].pc = "fetch"]
                /\ UNCHANGED lastJob
        /\ UNCHANGED <<otherVars, settingsVars, docVars, throttleVars, dcaller, dqueue,
                       dTrig, dExp, burst>>

\* Document.objects.get(pk) raises DoesNotExist, which nothing catches; the
\* indexer is constructed, which raises on missing settings; the accesses are
\* resolved and the document serialized
DJobFetch(w) ==
    LET d == dworker[w].doc
    IN  /\ dworker[w].pc = "fetch"
        /\ IF ~docExists[d]
           THEN /\ dworker' = [dworker EXCEPT ![w] = IdleDWorker]
                /\ lastJob' = [lastJob EXCEPT ![d] =
                      [fetch |-> "missing", error |-> "DoesNotExist", pushed |-> FALSE]]
           ELSE IF ~indexerConfigured
           THEN /\ dworker' = [dworker EXCEPT ![w] = IdleDWorker]
                /\ lastJob' = [lastJob EXCEPT ![d] =
                      [fetch |-> "found", error |-> "ImproperlyConfigured",
                       pushed |-> FALSE]]
           ELSE /\ dworker' = [dworker EXCEPT ![w].pc = "push",
                                  ![w].ver = FetchedVersion(w)]
                /\ UNCHANGED lastJob
        /\ UNCHANGED <<otherVars, settingsVars, docVars, throttleVars, debounceKey, dcaller,
                       dqueue, dTrig, dExp, burst>>

\* indexer.push(data)
DJobPush(w) ==
    LET d == dworker[w].doc
    IN  /\ dworker[w].pc = "push"
        /\ dworker' = [dworker EXCEPT ![w] = IdleDWorker]
        /\ burst' = [burst EXCEPT ![d].push = @ \cup {dworker[w].idx},
                        ![d].pushVer = dworker[w].ver,
                        ![d].pushFloor = dworker[w].runVer,
                        ![d].pushTv = dworker[w].tv]
        /\ lastJob' = [lastJob EXCEPT ![d] =
              [fetch |-> "found", error |-> "none", pushed |-> TRUE]]
        /\ UNCHANGED <<otherVars, settingsVars, docVars, throttleVars, debounceKey, dcaller,
                       dqueue, dTrig, dExp>>

(* --------------------------- document store --------------------------- *)
\* a committed save of the document
Mutate(d) ==
    /\ docExists[d]
    /\ docVer[d] < MaxVer
    /\ docVer' = [docVer EXCEPT ![d] = @ + 1]
    /\ UNCHANGED <<otherVars, debounceVars, settingsVars, docExists, throttleVars>>

\* the document row is deleted
Delete(d) ==
    /\ docExists[d]
    /\ docExists' = [docExists EXCEPT ![d] = FALSE]
    /\ UNCHANGED <<otherVars, debounceVars, settingsVars, docVer, throttleVars>>

\* the service restarts with other indexer settings; the cache and the
\* queued jobs outlive the restart
Reconfigure ==
    /\ \A p \in Callers : caller[p].pc = "idle"
    /\ \A w \in Workers : worker[w].pc \in {"idle", "done"}
    /\ \E c \in {<<FALSE, TRUE>>, <<TRUE, TRUE>>, <<TRUE, FALSE>>} :
        /\ c # <<SEARCH_INDEXER_CLASS, indexerConfigured>>
        /\ SEARCH_INDEXER_CLASS' = c[1]
        /\ indexerConfigured' = c[2]
    /\ UNCHANGED <<otherVars, cacheIsRedis, docVars, throttleVars, debounceVars>>

Next ==
    \/ \E p \in Callers, d \in Docs : TriggerStart(p, d)
    \/ \E p \in Callers : AddPlain(p)
    \/ \E p \in Callers : AcquireLock(p)
    \/ \E p \in Callers : AddUnderLock(p)
    \/ \E p \in Callers : ReleaseLock(p)
    \/ \E p \in Callers : Decide(p)
    \/ \E d \in Docs : Expire(d)
    \/ \E w \in Workers : JobStart(w)
    \/ \E w \in Workers : JobFetch(w)
    \/ \E w \in Workers : JobSerialize(w)
    \/ \E w \in Workers : JobPush(w)
    \/ \E w \in Workers : JobPushFails(w)
    \/ \E d \in Docs : Mutate(d)
    \/ \E d \in Docs : Delete(d)
    \/ Reconfigure

Spec == Init /\ [][Next]_vars

DebounceInit == Init /\ ~cacheIsRedis

DebounceNext ==
    \/ \E p \in Callers, d \in Docs : DTrigger(p, d)
    \/ \E p \in Callers : DIncrSet(p)
    \/ \E p \in Callers : DSchedule(p)
    \/ \E d \in Docs : DExpire(d)
    \/ \E w \in Workers : DJobDecr(w)
    \/ \E w \in Workers : DDecrSet(w)
    \/ \E w \in Workers : DJobFetch(w)
    \/ \E w \in Workers : DJobPush(w)
    \/ \E d \in Docs : Mutate(d)
    \/ \E d \in Docs : Delete(d)

SpecDebounce == DebounceInit /\ [][DebounceNext]_vars
(* ------------------------------ signals.py ----------------------------- *)
\* transaction.on_commit(func): inside transaction.atomic() the function is
\* kept until the commit; outside of it the function is run at once
DeferredNever(s) == FALSE
DeferredToCommit(s) == session[s].atomic

\* document_post_save / document_access_post_save: does the handler register
\* the trigger for this save
HandlerRegisters(sender, created) ==
    IF sender = "Document"
    THEN default_document_indexer # "None"
    ELSE ~created /\ default_document_indexer # "None"

\* number of saves of d in a sequence of uncommitted saves: kind "counted",
\* those made while an indexer was available; "updated", the updates of the
\* Document row; "created", its insertions
RECURSIVE CountIn(_, _, _)
CountIn(seq, d, kind) ==
    IF seq = <<>> THEN 0
    ELSE (IF /\ Head(seq).doc = d
             /\ \/ kind = "counted" /\ Head(seq).counted
                \/ kind = "updated" /\ Head(seq).sender = "Document"
                                   /\ ~Head(seq).created
                \/ kind = "created" /\ Head(seq).sender = "Document"
                                   /\ Head(seq).created
          THEN 1 ELSE 0) + CountIn(Tail(seq), d, kind)

\* updates of the Document row d that no session has committed yet
PendingDocSaves(d) ==
    LET RECURSIVE Sum(_)
        Sum(S) == IF S = {} THEN 0
                  ELSE LET s == CHOOSE x \in S : TRUE
                       IN  CountIn(session[s].saves, d, "updated") + Sum(S \ {s})
    IN  Sum(Sessions)

\* session s has inserted the Document row d and not committed it yet
InsertedBy(s, d) == CountIn(session[s].saves, d, "created") > 0

\* the Document row d as session s sees it
DocVisible(s, d) == docExists[d] \/ InsertedBy(s, d)

\* with transaction.atomic(): entered
Begin(s) ==
    /\ ~session[s].atomic
    /\ session[s].ready = <<>>
    /\ nSaves < MaxSaves
    /\ session' = [session EXCEPT ![s].atomic = TRUE]
    /\ UNCHANGED <<coreVars, searchVars, nSaves, nCommitted, nTriggered, nDeferred, nDropped,
                   indexVars, accessVars>>

\* instance.save() of a Document or a DocumentAccess of document d, and the
\* post_save handler of its sender. Outside a transaction the row is
\* committed by the save itself.
Save(s, d, sender, created) ==
    LET reg == HandlerRegisters(sender, created)
        counted == default_document_indexer # "None"
        sv == [doc |-> d, sender |-> sender, created |-> created,
               counted |-> counted]
        inTx == session[s].atomic
    IN  /\ session[s].ready = <<>>
        /\ nSaves < MaxSaves
        /\ IF sender = "Document"
           THEN /\ created = ~DocVisible(s, d)
                /\ created => \A t \in Sessions : ~InsertedBy(t, d)
                /\ ~created => docVer[d] + PendingDocSaves(d) < MaxVer
           ELSE DocVisible(s, d)
        /\ nSaves' = nSaves + 1
        /\ session' = [session EXCEPT
              ![s].saves = IF inTx THEN Append(@, sv) ELSE @,
              ![s].callbacks = IF reg /\ DeferredToCommit(s) THEN Append(@, d) ELSE @,
              ![s].ready = IF reg /\ ~DeferredToCommit(s)
                           THEN Append(@, [doc |-> d, deferred |-> FALSE]) ELSE @]
        /\ docVer' = [docVer EXCEPT ![d] =
              IF ~inTx /\ sender = "Document" /\ ~created THEN @ + 1 ELSE @]
        /\ docExists' = [docExists EXCEPT ![d] =
              IF ~inTx /\ sender = "Document" THEN TRUE ELSE @]
        /\ nCommitted' = [nCommitted EXCEPT ![d] =
              IF ~inTx /\ counted THEN @ + 1 ELSE @]
        /\ UNCHANGED <<extraVars, settingsVars, throttleVars, debounceVars,
                       nTriggered, nDeferred, nDropped, indexVars, accessVars,
                       searchVars>>

\* the block of transaction.atomic() ends normally: the saves are committed
\* and the registered functions are run, in the order of their registration
Commit(s) ==
    /\ session[s].atomic
    /\ session[s].ready = <<>>
    /\ docVer' = [d \in Docs |-> docVer[d] + CountIn(session[s].saves, d, "updated")]
    /\ docExists' = [d \in Docs |-> docExists[d] \/ InsertedBy(s, d)]
    /\ nCommitted' = [d \in Docs |->
          nCommitted[d] + CountIn(session[s].saves, d, "counted")]
    /\ session' = [session EXCEPT ![s] =
          [IdleSession EXCEPT !.ready =
              [i \in 1..Len(session[s].callbacks) |->
                  [doc |-> session[s].callbacks[i], deferred |-> TRUE]]]]
    /\ UNCHANGED <<extraVars, settingsVars, throttleVars, debounceVars, nSaves,
                   nTriggered, nDeferred, nDropped, indexVars, accessVars,
                   searchVars>>

\* the block ends on an exception: the saves are undone and the registered
\* functions are discarded
Rollback(s) ==
    /\ session[s].atomic
    /\ session[s].ready = <<>>
    /\ session' = [session EXCEPT ![s] = IdleSession]
    /\ nDropped' = nDropped + Len(session[s].callbacks)
    /\ UNCHANGED <<coreVars, searchVars, nSaves, nCommitted, nTriggered, nDeferred,
                   indexVars, accessVars>>

\* the connection runs a registered function: find.trigger_document_indexer
\* (document) with on_commit=False, that is incr_counter(key), where a
\* missing key is stored as 1, and apply_async
RunOnCommit(s) ==
    LET f == Head(session[s].ready)
        d == f.doc
    IN  /\ session[s].ready # <<>>
        /\ session' = [session EXCEPT ![s].ready = Tail(@)]
        /\ debounceKey' = [debounceKey EXCEPT ![d] =
              IF @.set THEN StoredKey(@.val + 1) ELSE StoredKey(1)]
        /\ dqueue' = [dqueue EXCEPT ![d][docVer[d]] = @ + 1]
        /\ nTriggered' = [nTriggered EXCEPT ![d] = @ + 1]
        /\ nDeferred' = IF f.deferred THEN nDeferred + 1 ELSE nDeferred
        /\ UNCHANGED <<extraVars, settingsVars, docVars, throttleVars, dcaller, dworker, dTrig,
                       dExp, burst, lastJob, nSaves, nCommitted, nDropped,
                       indexVars, accessVars,
                       searchVars>>

SignalsInit ==
    /\ CoreInit /\ ~cacheIsRedis
    /\ docExists \in [Docs -> BOOLEAN]
    /\ SignalsIdle /\ SearchIdle /\ IndexIdle /\ AccessIdle

SignalsNext ==
    \/ \E s \in Sessions : Begin(s)
    \/ \E s \in Sessions, d \in Docs, sender \in {"Document", "DocumentAccess"},
          created \in BOOLEAN : Save(s, d, sender, created)
    \/ \E s \in Sessions : Commit(s)
    \/ \E s \in Sessions : Rollback(s)
    \/ \E s \in Sessions : RunOnCommit(s)
    \/ Reconfigure

SpecSignals == SignalsInit /\ [][SignalsNext]_vars
(* ---------------- get_batch_accesses_by_users_and_teams ---------------- *)
\* materialized paths of the documents in the store, one number per
\* fixed-width segment: a grandparent, a parent, a child, a sibling of the
\* parent and another root
PathSpace == {<<1>>, <<1, 1>>, <<1, 1, 1>>, <<1, 2>>, <<2>>}

Users == {"A", "B", "C"}
Teams == {"team"}

\* the rows a DocumentAccess table can hold: each grants a document to one
\* user (team "") or to one team (user None)
AccessRows ==
    {[path |-> p, user |-> u, team |-> ""] : p \in PathSpace, u \in Users}
    \cup {[path |-> p, user |-> "None", team |-> t] : p \in PathSpace, t \in Teams}

\* utils.get_ancestor_to_descendants_map(paths, steplen): every prefix of an
\* input path made of whole segments, the path itself included, mapped to
\* the input paths it is a prefix of
get_ancestor_to_descendants_map(ps) ==
    LET prefixes(p) == {SubSeq(p, 1, k) : k \in 1..Len(p)}
        ancestors == UNION {prefixes(p) : p \in ps}
    IN  [a \in ancestors |-> {p \in ps : a \in prefixes(p)}]

\* DocumentAccess.objects.filter(document__path__in=ancestor_paths)
AccessQueryOwnPathsOnly(ancestor_paths) == {row \in grants : row.path \in paths}
AccessQuery(ancestor_paths) == {row \in grants : row.path \in ancestor_paths}

\* access_by_document_path[path] of the defaultdict: the entry is made when
\* it is first read
EntryOf(acc, p) ==
    IF p \in DOMAIN acc THEN acc[p] ELSE [users |-> {}, teams |-> {}]

\* the body of `for access in access_qs` for one row
RECURSIVE AddAccess(_, _, _)
AddAccess(acc, row, descendants) ==
    IF descendants = {} THEN acc
    ELSE LET p == CHOOSE x \in descendants : TRUE
             e == EntryOf(acc, p)
             e1 == IF row.user # "None"
                   THEN [e EXCEPT !.users = @ \cup {row.user}] ELSE e
             e2 == IF row.team # ""
                   THEN [e1 EXCEPT !.teams = @ \cup {row.team}] ELSE e1
             touched == row.user # "None" \/ row.team # ""
             acc1 == IF touched
                     THEN [q \in DOMAIN acc \cup {p} |-> IF q = p THEN e2 ELSE acc[q]]
                     ELSE acc
         IN  AddAccess(acc1, row, descendants \ {p})

\* the loop over the rows of the query
RECURSIVE AddAccesses(_, _, _)
AddAccesses(acc, access_qs, ancestor_map) ==
    IF access_qs = {} THEN acc
    ELSE LET row == CHOOSE r \in access_qs : TRUE
             descendants == IF row.path \in DOMAIN ancestor_map
                            THEN ancestor_map[row.path] ELSE {}
         IN  AddAccesses(AddAccess(acc, row, descendants), access_qs \ {row},
                         ancestor_map)

get_batch_accesses_by_users_and_teams(ps) ==
    LET ancestor_map == get_ancestor_to_descendants_map(ps)
        access_qs == AccessQuery(DOMAIN ancestor_map)
    IN  AddAccesses(<<>>, access_qs, ancestor_map)

\* accesses.get(doc_path, {}).get(field, set()), as serialize_document reads
\* the result
AccessOf(map, p, field) == IF p \in DOMAIN map THEN map[p][field] ELSE {}

\* one call of the resolution for the paths of a batch
Resolve ==
    /\ ~resolved.done
    /\ resolved' = [done |-> TRUE, map |-> get_batch_accesses_by_users_and_teams(paths)]
    /\ UNCHANGED <<coreVars, searchVars, signalVars, indexVars, grants, paths>>

\* any access table of up to MaxGrants rows and any batch of up to MaxPaths
\* paths
AccessInit ==
    /\ CoreInit /\ ~cacheIsRedis /\ DocsStored /\ SignalsIdle /\ SearchIdle /\ IndexIdle
    /\ grants \in {g \in SUBSET AccessRows : Cardinality(g) <= MaxGrants}
    /\ paths \in {ps \in SUBSET PathSpace : Cardinality(ps) <= MaxPaths}
    /\ resolved = NotResolved

AccessNext == Resolve

SpecAccess == AccessInit /\ [][AccessNext]_vars
(* --------------------- BaseDocumentIndexer.index ----------------------- *)
\* the querysets index() is called with: "None", no argument; "all", one
\* that every row satisfies; "nothing", one that no row satisfies (updated
\* since a timestamp later than every row); "titled", title__isnull=False
Scopes == {"None", "all", "nothing", "titled"}

\* a Document row: title None or a text, content empty or a Yjs blob
Documents == [present : {TRUE}, title : {"None", "T"}, content : {"", "Y"}]

\* the row satisfies the filter of the queryset
Satisfies(q, doc) ==
    CASE q = "nothing" -> FALSE
      [] q = "titled" -> doc.title # "None"
      [] OTHER -> TRUE

\* the rows of a queryset, by identifier
Matching(q) == {i \in Ids : rows[i].present /\ Satisfies(q, rows[i])}

\* `queryset or models.Document.objects.all()`: a queryset is false when it
\* is None and also when it has no row
QuerysetOrAllKeepsEmpty(q) == IF q = "None" THEN "all" ELSE q
QuerysetOrAll(q) == IF q = "None" \/ Matching(q) = {} THEN "all" ELSE q

\* filter(id__gt=last_id)
AfterCursorInclusive(i, last_id) == i >= last_id
AfterCursor(i, last_id) == i > last_id

\* queryset.filter(id__gt=last_id).order_by("id")[: self.batch_size]
PageAfter(q, last_id) ==
    LET cand == {i \in Matching(q) : AfterCursor(i, last_id)}
    IN  {i \in cand : Cardinality({j \in cand : j < i}) < batch_size}

\* documents_batch[-1].id
LastIdOf(page) == CHOOSE i \in page : \A j \in page : j <= i

\* the cursor after a non-empty page
CursorStays(page, last_id) == last_id
NextCursor(page, last_id) == LastIdOf(page)

\* `if document.content or document.title`
HasContentAndTitle(doc) == doc.content # "" /\ doc.title # "None"
HasContentOrTitle(doc) == doc.content # "" \/ doc.title # "None"

\* utils.base64_yjs_to_text: the plain text of a Yjs blob
base64_yjs_to_text(content) == IF content = "Y" THEN "text" ELSE "undecodable"

\* the Document instance of identifier i, as the queryset yields it: the
\* fields of its row, its path and its two soft-delete markers (TRUE: the
\* timestamp is set)
DocumentOf(i) ==
    [id |-> i, title |-> rows[i].title, content |-> rows[i].content,
     path |-> tree[i].path, deleted_at |-> tree[i].deleted_at,
     ancestors_deleted_at |-> tree[i].ancestors_deleted_at]

\* list(a_set): the elements in the iteration order of the set, which is
\* the same every time an unchanged set is iterated
RECURSIVE ListOf(_)
ListOf(S) ==
    IF S = {} THEN <<>>
    ELSE LET x == CHOOSE y \in S : TRUE IN <<x>> \o ListOf(S \ {x})

\* `not bool(document.ancestors_deleted_at)`
IsActiveUnlessDeleted(document) == ~document.deleted_at
IsActive(document) == ~document.ancestors_deleted_at

\* serialize_document(document, accesses); depth, numchild, the two
\* timestamps, reach and size are copied or computed from the same fields
\* and are left out of the record
serialize_document(document, accesses) ==
    [id |-> document.id,
     title |-> IF document.title = "None" THEN "" ELSE document.title,
     content |-> IF document.content # ""
                 THEN base64_yjs_to_text(document.content) ELSE "",
     path |-> document.path,
     users |-> ListOf(AccessOf(accesses, document.path, "users")),
     groups |-> ListOf(AccessOf(accesses, document.path, "teams")),
     is_active |-> IsActive(document)]

\* where index() goes when push() raises
ContinuesAfterPushError == "fetch"
AfterPushError == "raised"

\* doc_paths = [doc.path for doc in documents_batch] and the accesses
\* resolved for them
AccessesOfBatchMembers(page) ==
    LET ps == {tree[i].path : i \in page}
    IN  AddAccesses(<<>>, {row \in grants : row.path \in ps},
                    get_ancestor_to_descendants_map(ps))
AccessesOfBatch(page) ==
    get_batch_accesses_by_users_and_teams({tree[i].path : i \in page})

\* index(queryset): last_id = 0, count = 0, queryset = queryset or all()
IndexCall ==
    /\ run.pc = "idle"
    /\ run' = [IdleRun EXCEPT !.pc = "fetch", !.queryset = QuerysetOrAll(scope)]
    /\ UNCHANGED <<coreVars, searchVars, signalVars, accessVars, tree, rows, scope, batch_size,
                   pages, pushes, nWrites>>

\* one turn of the loop up to push(): the page after the cursor; an empty
\* page ends the loop and count is returned; otherwise the cursor moves to
\* the page's last identifier and the batch is serialized
FetchPage ==
    LET page == PageAfter(run.queryset, run.last_id)
    IN  /\ run.pc = "fetch"
        /\ pages' = Append(pages, page)
        /\ IF page = {}
           THEN run' = [run EXCEPT !.pc = "returned", !.result = run.count]
           ELSE run' = [run EXCEPT
                   !.pc = "push",
                   !.last_id = NextCursor(page, run.last_id),
                   !.batch = {serialize_document(DocumentOf(i),
                                                 AccessesOfBatch(page)) :
                                 i \in {j \in page : HasContentOrTitle(rows[j])}}]
        /\ UNCHANGED <<coreVars, searchVars, signalVars, accessVars, tree, rows, scope, batch_size,
                       pushes, nWrites>>

\* self.push(serialized_batch) succeeds; count += len(serialized_batch)
Push ==
    /\ run.pc = "push"
    /\ pushes' = Append(pushes, run.batch)
    /\ run' = [run EXCEPT !.pc = "fetch", !.count = @ + Cardinality(run.batch),
                          !.batch = {}]
    /\ UNCHANGED <<coreVars, searchVars, signalVars, accessVars, tree, rows, scope, batch_size,
                   pages, nWrites>>

\* self.push(serialized_batch) raises (raise_for_status, timeout): nothing
\* in index() catches it
PushFails ==
    /\ run.pc = "push"
    /\ run' = [run EXCEPT !.pc = AfterPushError, !.error = "HTTPError",
                          !.batch = {}]
    /\ UNCHANGED <<coreVars, searchVars, signalVars, accessVars, tree, rows, scope, batch_size,
                   pages, pushes, nWrites>>

\* another session inserts a Document row while the run is under way
InsertRow(i, doc) ==
    /\ run.pc \in {"fetch", "push"}
    /\ nWrites < MaxWrites
    /\ ~rows[i].present
    /\ rows' = [rows EXCEPT ![i] = doc]
    /\ nWrites' = nWrites + 1
    /\ UNCHANGED <<coreVars, searchVars, signalVars, accessVars, tree, scope, batch_size, run,
                   pages, pushes>>

\* another session deletes a Document row while the run is under way
DeleteRow(i) ==
    /\ run.pc \in {"fetch", "push"}
    /\ nWrites < MaxWrites
    /\ rows[i].present
    /\ rows' = [rows EXCEPT ![i] = NoRow]
    /\ nWrites' = nWrites + 1
    /\ UNCHANGED <<coreVars, searchVars, signalVars, accessVars, tree, scope, batch_size, run,
                   pages, pushes>>

\* any table, any queryset and any batch size, index() not yet called
IndexInit ==
    /\ CoreInit /\ ~cacheIsRedis /\ DocsStored /\ SignalsIdle /\ SearchIdle /\ AccessIdle
    /\ rows \in [Ids -> Documents \cup {NoRow}]
    /\ scope \in Scopes
    /\ batch_size \in BatchSizes
    /\ run = IdleRun
    /\ pages = <<>>
    /\ pushes = <<>>
    /\ nWrites = 0
    /\ tree = FlatTree

IndexNext ==
    \/ IndexCall
    \/ FetchPage
    \/ Push
    \/ PushFails

SpecIndex == IndexInit /\ [][IndexNext]_vars

\* the tables whose documents all have a content: what index() fetches and
\* how far it goes does not depend on the content
FairInit == IndexInit /\ \A i \in Ids : rows[i].present => rows[i].content = "Y"

\* index() runs in one thread that keeps running until it returns or raises
SpecIndexFair == FairInit /\ [][IndexNext]_vars /\ WF_vars(IndexNext)

\* a full reindex of a table of documents with title and content, while
\* other sessions insert documents of any kind and delete documents
WritesInit ==
    /\ IndexInit
    /\ scope = "None"
    /\ \A i \in Ids : rows[i].present => (rows[i].title = "T" /\ rows[i].content = "Y")

IndexWritesNext ==
    \/ IndexCall
    \/ FetchPage
    \/ Push
    \/ PushFails
    \/ \E i \in Ids, doc \in Documents : InsertRow(i, doc)
    \/ \E i \in Ids : DeleteRow(i)

SpecIndexWrites == WritesInit /\ [][IndexWritesNext]_vars
(* ------------------- index() over a tree of documents ----------------- *)
\* the documents of the tree
TreeIds == 1..MaxNodes

\* the k-th ancestor of document i under the parent function f (0: none)
RECURSIVE Up(_, _, _)
Up(f, i, k) ==
    IF k = 0 THEN i
    ELSE IF Up(f, i, k - 1) = 0 THEN 0 ELSE f[Up(f, i, k - 1)]

\* the ways the documents can be arranged in trees: each has a parent or
\* is a root (0), whatever the order of the identifiers
Forests ==
    {f \in [TreeIds -> 0..MaxNodes] : \A i \in TreeIds : Up(f, i, MaxNodes) = 0}

\* the materialized path of document i: the path of its parent followed by
\* its own segment
RECURSIVE PathIn(_, _)
PathIn(f, i) == IF f[i] = 0 THEN <<i>> ELSE Append(PathIn(f, f[i]), i)

\* the documents arranged as f says, none of them soft-deleted
TreeOf(f) ==
    [i \in Ids |-> IF i \in TreeIds
                   THEN [path |-> PathIn(f, i), deleted_at |-> FALSE,
                         ancestors_deleted_at |-> FALSE]
                   ELSE FlatTree[i]]

\* the principals granted access in those runs
TreeUsers == {"A", "B"}

\* the DocumentAccess rows that grant a document of the tree t
GrantsOn(t) ==
    {[path |-> t[i].path, user |-> u, team |-> ""] : i \in TreeIds, u \in TreeUsers}
    \cup {[path |-> t[i].path, user |-> "None", team |-> g] :
             i \in TreeIds, g \in Teams}

\* a document with a title and a content
FullDocument == [present |-> TRUE, title |-> "T", content |-> "Y"]

\* a full reindex of any tree of MaxNodes documents under any access table
\* of up to MaxTreeGrants rows, with any batch size
TreeInit ==
    /\ CoreInit /\ ~cacheIsRedis /\ DocsStored /\ SignalsIdle /\ SearchIdle
    /\ rows = [i \in Ids |-> IF i \in TreeIds THEN FullDocument ELSE NoRow]
    /\ tree \in {TreeOf(f) : f \in Forests}
    /\ grants \in {g \in SUBSET GrantsOn(tree) : Cardinality(g) <= MaxTreeGrants}
    /\ paths = {}
    /\ resolved = NotResolved
    /\ scope = "None"
    /\ batch_size \in BatchSizes
    /\ run = IdleRun
    /\ pages = <<>>
    /\ pushes = <<>>
    /\ nWrites = 0

SpecIndexTree == TreeInit /\ [][IndexNext]_vars

(* --------------- index() after documents were soft-deleted ------------- *)
\* a is a proper ancestor of p: p starts with the segments of a and is longer
Above(a, p) == Len(a) < Len(p) /\ \A k \in 1..Len(a) : a[k] = p[k]

\* Document.soft_delete() before the run: the document gets its own marker
\* and every descendant gets the ancestor marker
SoftDelete(i) ==
    /\ run.pc = "idle"
    /\ rows[i].present
    /\ ~tree[i].deleted_at
    /\ tree' = [j \in Ids |->
                  IF j = i THEN [tree[j] EXCEPT !.deleted_at = TRUE]
                  ELSE IF rows[j].present /\ Above(tree[i].path, tree[j].path)
                       THEN [tree[j] EXCEPT !.ancestors_deleted_at = TRUE]
                       ELSE tree[j]]
    /\ UNCHANGED <<coreVars, searchVars, signalVars, accessVars, rows, scope, batch_size,
                   run, pages, pushes, nWrites>>

\* a full reindex of any tree of MaxNodes documents, none of them deleted
\* yet, with any batch size
DeletedInit == TreeInit /\ grants = {}

DeletedNext ==
    \/ \E i \in TreeIds : SoftDelete(i)
    \/ IndexCall
    \/ FetchPage
    \/ Push
    \/ PushFails

SpecIndexDeleted == DeletedInit /\ [][DeletedNext]_vars

(* -------------------- get_visited_document_ids_of ---------------------- *)
\* request.user of a request without a session
AnonymousUser == "AnonymousUser"

\* the requester of the search requests, when logged in
Requesters == {"A"}

\* the rows the LinkTrace table can hold
LinkTraceRows == [user : TreeUsers, document : TreeIds]

\* accesses__user=user: a DocumentAccess row of the document names the user
HasAccessOf(u, i) == \E row \in grants : row.path = tree[i].path /\ row.user = u

\* filter(deleted_at__isnull=True, ancestors_deleted_at__isnull=True)
NotDeletedItself(i) == ~tree[i].deleted_at
NotDeleted(i) == ~tree[i].deleted_at /\ ~tree[i].ancestors_deleted_at

\* pk__in=Subquery(qs.values("document_id")), qs the LinkTrace rows of the user
Traced(u, i) == \E t \in linktraces : t.user = u /\ t.document = i

\* order_by("pk").distinct("pk"), then the list of the pk values
RECURSIVE OrderedByPk(_)
OrderedByPk(S) ==
    IF S = {} THEN <<>>
    ELSE LET first == CHOOSE i \in S : \A j \in S : i <= j
         IN  <<first>> \o OrderedByPk(S \ {first})

\* [str(id) for id in ...]
StrOfEach(seq) == [k \in 1..Len(seq) |-> ToString(seq[k])]

\* get_visited_document_ids_of(queryset, user), queryset given by its rows
get_visited_document_ids_of(queryset, u) ==
    IF u = AnonymousUser THEN <<>>
    ELSE StrOfEach(OrderedByPk({i \in queryset :
                      /\ ~HasAccessOf(u, i)
                      /\ NotDeleted(i)
                      /\ Traced(u, i)}))

\* one call with queryset = models.Document.objects.all()
GetVisited ==
    /\ ~visited.done
    /\ visited' = [done |-> TRUE,
                   ids |-> get_visited_document_ids_of(Matching("all"), user)]
    /\ UNCHANGED <<coreVars, signalVars, indexVars, accessVars, user, linktraces,
                   corpus, authorized, found, request, response>>

\* the documents in one line of descent: 1, its child 2, the child of 2, ...
Chain == [i \in TreeIds |-> i - 1]

\* the run of index() is not under way
NoRun ==
    /\ scope = "None"
    /\ batch_size = 1
    /\ run = IdleRun
    /\ pages = <<>>
    /\ pushes = <<>>
    /\ nWrites = 0

\* any access table of up to MaxTreeGrants rows, any LinkTrace table of up
\* to MaxTraces rows, an anonymous or a logged-in requester
VisitedInit ==
    /\ CoreInit /\ ~cacheIsRedis /\ DocsStored /\ SignalsIdle /\ NoRun
    /\ rows = [i \in Ids |-> IF i \in TreeIds THEN FullDocument ELSE NoRow]
    /\ tree = TreeOf(Chain)
    /\ grants \in {g \in SUBSET GrantsOn(tree) : Cardinality(g) <= MaxTreeGrants}
    /\ paths = {}
    /\ resolved = NotResolved
    /\ user \in {AnonymousUser} \cup Requesters
    /\ linktraces \in {t \in SUBSET LinkTraceRows : Cardinality(t) <= MaxTraces}
    /\ visited = NotVisited
    /\ corpus = [i \in Ids |-> NoText]
    /\ authorized = {}
    /\ found = <<>>
    /\ request = NoRequest
    /\ response = NoResponse

VisitedNext ==
    \/ \E i \in TreeIds : ~visited.done /\ SoftDelete(i)
    \/ GetVisited

SpecVisited == VisitedInit /\ [][VisitedNext]_vars

(* --------------------------- search view ------------------------------ *)
\* page_size of the query the view sends to the external index
QueryPageSize == 100

\* the text searched for, letter by letter
SearchText == <<"a", "b">>

\* the titles of the documents: the text, the text in upper case inside
\* other letters, and a title without the text
Titles == {<<"a", "b">>, <<"X", "A", "B">>, <<"b", "a">>}

\* str.lower() of a letter
Lower(c) == CASE c = "A" -> "a" [] c = "B" -> "b" [] c = "X" -> "x" [] OTHER -> c

\* title contains text: same case, or whatever the case
TitleContainsExactCase(title, text) ==
    \E o \in 0..(Len(title) - Len(text)) :
        SubSeq(title, o + 1, o + Len(text)) = text
TitleContains(title, text) ==
    LET lower(w) == [k \in 1..Len(w) |-> Lower(w[k])]
    IN  \E o \in 0..(Len(title) - Len(text)) :
            SubSeq(lower(title), o + 1, o + Len(text)) = lower(text)

\* most recently updated first
RECURSIVE OrderedByUpdatedDesc(_)
OrderedByUpdatedDesc(S) ==
    IF S = {} THEN <<>>
    ELSE LET first == CHOOSE i \in S :
                        \A j \in S : corpus[j].updated_at <= corpus[i].updated_at
         IN  <<first>> \o OrderedByUpdatedDesc(S \ {first})

\* the data BaseDocumentIndexer.search sends with search_query
SearchData(text, visited_ids, page, page_size) ==
    [q |-> text, visited |-> visited_ids, services |-> <<"docs">>,
     page_number |-> page, page_size |-> page_size,
     order_by |-> "updated_at", order_direction |-> "desc"]

\* [d["_id"] for d in response]
IdsOfResponse(resp) == [k \in 1..Len(resp) |-> resp[k]._id]

\* the string ids of the documents the requester is authorized for now and
\* that are not deleted; without the deletion state
AllowedIdsWithDeleted ==
    {ToString(i) : i \in {j \in authorized : rows[j].present}}
AllowedIds ==
    {ToString(i) : i \in {j \in authorized : rows[j].present /\ NotDeleted(j)}}

\* the ids of the response that are allowed: in ascending order of the
\* ids, or in the order of the response
ReconcileSorted(ids, allowed) ==
    StrOfEach(OrderedByPk({i \in Ids : \E k \in 1..Len(ids) :
                              ids[k] = ToString(i) /\ ids[k] \in allowed}))
Reconcile(ids, allowed) == SelectSeq(ids, LAMBDA x : x \in allowed)

\* the number of pages of n results: one page when there is no result
NumPages(n, page_size) ==
    IF n = 0 THEN 1 ELSE (n + page_size - 1) \div page_size

\* the answer for one page of the list: not found beyond the last page;
\* or an empty page there
PaginateEmptyBeyond(list, page, page_size) ==
    [status |-> 200,
     results |-> SubSeq(list, (page - 1) * page_size + 1,
                        IF page * page_size < Len(list)
                        THEN page * page_size ELSE Len(list)),
     count |-> Len(list), query |-> <<>>]
Paginate(list, page, page_size) ==
    IF page > NumPages(Len(list), page_size)
    THEN [status |-> 404, results |-> <<>>, count |-> 0, query |-> <<>>]
    ELSE [status |-> 200,
          results |-> SubSeq(list, (page - 1) * page_size + 1,
                             IF page * page_size < Len(list)
                             THEN page * page_size ELSE Len(list)),
          count |-> Len(list), query |-> <<>>]

\* the page of the reconciled response: the raw response sliced and then
\* reconciled, or reconciled and then sliced
SliceThenFilter(ids, allowed, page, page_size) ==
    LET raw == Paginate(ids, page, page_size)
    IN  [raw EXCEPT !.results = Reconcile(@, allowed)]
FilterThenSlice(ids, allowed, page, page_size) ==
    Paginate(Reconcile(ids, allowed), page, page_size)

\* page_number of the query the view sends for a request: the page the
\* request asks for, or the first page whatever the request asks for
QueryPageNumberRequested(req) == req.page
QueryPageNumber(req) == 1

\* the search view with an indexer: visited ids, one query for the first
\* QueryPageSize results, reconciliation, then the page asked for
SearchFulltext ==
    /\ response.status = 0
    /\ get_document_indexer # "None"
    /\ visited' = [done |-> TRUE,
                   ids |-> get_visited_document_ids_of(Matching("all"), user)]
    /\ response' =
          [FilterThenSlice(IdsOfResponse(found), AllowedIds, request.page,
                           request.page_size)
             EXCEPT !.query = <<SearchData(request.q, visited'.ids,
                                           QueryPageNumber(request),
                                           QueryPageSize)>>]
    /\ UNCHANGED <<coreVars, signalVars, indexVars, accessVars, user, linktraces,
                   corpus, authorized, found, request>>

\* the search view without indexer: the requester's documents filtered on
\* the title, most recently updated first, then the page asked for
SearchFallback ==
    /\ response.status = 0
    /\ get_document_indexer = "None"
    /\ response' =
          Paginate(StrOfEach(OrderedByUpdatedDesc(
                       {i \in authorized : /\ rows[i].present
                                           /\ TitleContains(corpus[i].title,
                                                            request.q)})),
                   request.page, request.page_size)
    /\ UNCHANGED <<coreVars, signalVars, indexVars, accessVars, user, linktraces,
                   visited, corpus, authorized, found, request>>

\* the tree after the documents of D were soft-deleted
TreeWithDeleted(D) ==
    [i \in Ids |->
        [TreeOf(Chain)[i] EXCEPT
            !.deleted_at = i \in D,
            !.ancestors_deleted_at =
                \E j \in D : Above(TreeOf(Chain)[j].path, TreeOf(Chain)[i].path)]]

\* the responses the external index can give: up to MaxFound ids of
\* documents, none twice, in any order
FoundLists ==
    {f \in UNION {[1..n -> {[_id |-> ToString(i)] : i \in TreeIds}] : n \in 0..MaxFound} :
        \A a, b \in 1..Len(f) : a # b => f[a] # f[b]}

\* the documents all titled with the text, document i updated at time i
SameTitles ==
    [i \in Ids |-> IF i \in TreeIds
                   THEN [title |-> SearchText, updated_at |-> i] ELSE NoText]

\* any title for each document and any order of the updates
AnyTitles ==
    {[i \in Ids |-> IF i \in TreeIds
                    THEN [title |-> t[i], updated_at |-> u[i]] ELSE NoText] :
        t \in [TreeIds -> Titles],
        u \in {v \in [TreeIds -> TreeIds] :
                  \A i, j \in TreeIds : i # j => v[i] # v[j]}}

\* a search request of an anonymous or a logged-in requester for any page
\* of any size: with an indexer, over documents of which some are
\* soft-deleted and any response of the external index; with no query
\* endpoint, over documents of any title and update order
SearchInit ==
    /\ SEARCH_INDEXER_CLASS = TRUE
    /\ CoreIdle /\ ~cacheIsRedis /\ DocsStored /\ SignalsIdle /\ NoRun
    /\ AccessIdle
    /\ rows = [i \in Ids |-> IF i \in TreeIds THEN FullDocument ELSE NoRow]
    /\ user \in {AnonymousUser} \cup Requesters
    /\ authorized \in IF user = AnonymousUser THEN {{}} ELSE SUBSET TreeIds
    /\ linktraces = {[user |-> "A", document |-> 1]}
    /\ visited = NotVisited
    /\ request \in [q : {SearchText}, page : 1..MaxPage, page_size : 1..MaxPageSize]
    /\ response = NoResponse
    /\ \/ /\ indexerConfigured = TRUE
          /\ tree \in {TreeWithDeleted(D) : D \in SUBSET TreeIds}
          /\ found \in FoundLists
          /\ corpus = SameTitles
       \/ /\ indexerConfigured = FALSE
          /\ tree = TreeOf(Chain)
          /\ found = <<>>
          /\ corpus \in AnyTitles

SearchNext ==
    \/ SearchFulltext
    \/ SearchFallback

SpecSearch == SearchInit /\ [][SearchNext]_vars

(* ------------- construction of the indexer and its HTTP calls ---------- *)
\* `not value`: the setting is None or the empty string
Falsy(v) == v \in {"None", ""}

\* the indexer class called with no argument
ImproperlyConfigured(setting) ==
    [done |-> TRUE, result |-> "none", error |-> "ImproperlyConfigured",
     about |-> setting]
Constructed ==
    [done |-> TRUE, result |-> "instance", error |-> "none", about |-> "none"]

\* BaseDocumentIndexer.__init__: the three settings are read and checked
\* in turn; without the check of the query URL
BaseDocumentIndexerInitNoQueryUrl(s) ==
    IF Falsy(s.SEARCH_INDEXER_URL) THEN ImproperlyConfigured("SEARCH_INDEXER_URL")
    ELSE IF Falsy(s.SEARCH_INDEXER_SECRET)
    THEN ImproperlyConfigured("SEARCH_INDEXER_SECRET")
    ELSE Constructed
BaseDocumentIndexerInit(s) ==
    IF Falsy(s.SEARCH_INDEXER_URL) THEN ImproperlyConfigured("SEARCH_INDEXER_URL")
    ELSE IF Falsy(s.SEARCH_INDEXER_SECRET)
    THEN ImproperlyConfigured("SEARCH_INDEXER_SECRET")
    ELSE IF Falsy(s.SEARCH_INDEXER_QUERY_URL)
    THEN ImproperlyConfigured("SEARCH_INDEXER_QUERY_URL")
    ELSE Constructed

\* how a request sent by requests.post(..., timeout=10) can end: a response
\* with a success status or an error status, no connection, no answer in time
Transports == {"200", "401", "500", "ConnectionError", "Timeout"}

\* requests.post raises when there is no response
PostRaises(t) == IF t \in {"ConnectionError", "Timeout"} THEN t ELSE "none"

\* response.raise_for_status(): HTTPError on a 4xx or 5xx status
RaiseForStatusNever(t) == "none"
RaiseForStatus(t) == IF t \in {"401", "500"} THEN "HTTPError" ELSE "none"

\* FindDocumentIndexer(): the constructor runs on the settings
Construct ==
    /\ ~construction.done
    /\ construction' = BaseDocumentIndexerInit(indexerSettings)
    /\ UNCHANGED <<settingsVars, docVars, throttleVars, debounceVars, signalVars,
                   indexVars, accessVars, searchVars, keyVars, batchVars,
                   indexerSettings, http>>

\* push(data) or search_query(data, token) of the instance is called and
\* sends its request: requests.post, which raises when no response comes
Post(c) ==
    /\ construction.result = "instance"
    /\ http.pc \in {"idle", "returned", "raised"}
    /\ http.calls < MaxCalls
    /\ \E t \in Transports :
          http' = [call |-> c,
                   pc |-> IF PostRaises(t) = "none" THEN "posted" ELSE "raised",
                   calls |-> http.calls + 1, attempts |-> http.attempts + 1,
                   transport |-> t, raised |-> PostRaises(t)]
    /\ UNCHANGED <<settingsVars, docVars, throttleVars, debounceVars, signalVars,
                   indexVars, accessVars, searchVars, keyVars, batchVars,
                   indexerSettings, construction>>

\* response.raise_for_status(), then the call returns
Returns ==
    /\ http.pc = "posted"
    /\ http' = [http EXCEPT
                  !.raised = RaiseForStatus(http.transport),
                  !.pc = IF RaiseForStatus(http.transport) = "none"
                         THEN "returned" ELSE "raised"]
    /\ UNCHANGED <<settingsVars, docVars, throttleVars, debounceVars, signalVars,
                   indexVars, accessVars, searchVars, keyVars, batchVars,
                   indexerSettings, construction>>

\* every setting of the three settings, with and without an indexer class
ServiceInit ==
    /\ SEARCH_INDEXER_CLASS \in BOOLEAN
    /\ indexerSettings \in [{"SEARCH_INDEXER_URL", "SEARCH_INDEXER_SECRET",
                             "SEARCH_INDEXER_QUERY_URL"} -> SettingValues]
    /\ indexerConfigured = (indexerSettings = AllSet)
    /\ construction = NotConstructed
    /\ http = NoCall
    /\ CoordinatorsIdle /\ ~cacheIsRedis
    /\ KeysIdle /\ BatchIdle
    /\ DocsStored /\ SignalsIdle /\ SearchIdle /\ IndexIdle /\ AccessIdle

ServiceNext ==
    \/ Construct
    \/ \E c \in {"push", "search_query"} : Post(c)
    \/ Returns

SpecService == ServiceInit /\ [][ServiceNext]_vars

(* ------------- triggers and jobs of two documents on one cache --------- *)
\* the variables the triggers and jobs of the two documents leave alone
notKeyVars ==
    <<settingsVars, docVars, throttleVars, debounceVars, signalVars, indexVars,
      accessVars, searchVars, serviceVars, batchVars>>

\* one more operation, for document d
Operation(d, op) ==
    /\ kops < MaxKeyOps
    /\ kops' = kops + 1
    /\ kact' = [doc |-> d, op |-> op]

\* tasks/search.py trigger_document_indexer(document) on a cache without
\* locks: cache.add on the document's key, then apply_async or skip
KTrigger(d) ==
    LET key == indexer_throttle_key(d)
    IN  /\ ~cacheIsRedis
        /\ Operation(d, "trigger")
        /\ IF ~kcache[key].set
           THEN /\ kcache' = [kcache EXCEPT ![key] = ValueEntry(1)]
                /\ kjobs' = [kjobs EXCEPT ![d].throttle = @ + 1]
           ELSE UNCHANGED <<kcache, kjobs>>
        /\ UNCHANGED <<notKeyVars, kpc>>

\* the same on RedisCache, up to the entry of `with cache.locks(key)`, which
\* waits while the key holds a value
KLock(d) ==
    LET key == indexer_throttle_key(d)
    IN  /\ cacheIsRedis
        /\ kpc[d] = "idle"
        /\ ~kcache[key].set
        /\ Operation(d, "lock")
        /\ kcache' = [kcache EXCEPT ![key] = LockEntry]
        /\ kpc' = [kpc EXCEPT ![d] = "locked"]
        /\ UNCHANGED <<notKeyVars, kjobs>>

\* cache.add under the lock, the release of the lock, then apply_async or skip
KAddUnderLock(d) ==
    LET key == indexer_throttle_key(d)
        ok == ~kcache[key].set
    IN  /\ kpc[d] = "locked"
        /\ Operation(d, "trigger")
        /\ kcache' = [kcache EXCEPT ![key] =
                         IF ok THEN ValueEntry(1)
                         ELSE IF @.lock THEN NoEntry ELSE @]
        /\ kjobs' = [kjobs EXCEPT ![d].throttle = IF ok THEN @ + 1 ELSE @]
        /\ kpc' = [kpc EXCEPT ![d] = "idle"]
        /\ UNCHANGED notKeyVars

\* the TTL of the flag of d runs out
KExpire(d) ==
    LET key == indexer_throttle_key(d)
    IN  /\ kcache[key].set /\ ~kcache[key].lock
        /\ Operation(d, "expire")
        /\ kcache' = [kcache EXCEPT ![key] = NoEntry]
        /\ UNCHANGED <<notKeyVars, kjobs, kpc>>

\* tasks/search.py document_indexer_task(document_id): fetch, serialize, push
KJob(d) ==
    /\ kjobs[d].throttle > 0
    /\ Operation(d, "job")
    /\ kjobs' = [kjobs EXCEPT ![d].throttle = @ - 1, ![d].pushed = @ + 1]
    /\ UNCHANGED <<notKeyVars, kcache, kpc>>

\* tasks/find.py trigger_document_indexer(document): incr_counter on the
\* document's key, then apply_async
KDTrigger(d) ==
    LET key == document_indexer_debounce_key(d)
    IN  /\ Operation(d, "dtrigger")
        /\ kcache' = [kcache EXCEPT ![key] =
                         IF @.set THEN ValueEntry(@.val + 1) ELSE ValueEntry(1)]
        /\ kjobs' = [kjobs EXCEPT ![d].debounce = @ + 1]
        /\ UNCHANGED <<notKeyVars, kpc>>

\* tasks/find.py document_indexer_task(document_id): decr_counter on the
\* document's key, the gate, then the push
KDJob(d) ==
    LET key == document_indexer_debounce_key(d)
        r == IF kcache[key].set THEN kcache[key].val - 1 ELSE 0
    IN  /\ kjobs[d].debounce > 0
        /\ Operation(d, "djob")
        /\ kcache' = [kcache EXCEPT ![key] = ValueEntry(r)]
        /\ kjobs' = [kjobs EXCEPT ![d].debounce = @ - 1,
                                  ![d].pushed = IF SkipsOnCounter(r) THEN @ ELSE @ + 1]
        /\ UNCHANGED <<notKeyVars, kpc>>

KeysInit ==
    /\ SEARCH_INDEXER_CLASS = TRUE /\ indexerConfigured = TRUE
    /\ CoordinatorsIdle /\ ExtraIdle
    /\ DocsStored /\ SignalsIdle /\ SearchIdle /\ IndexIdle /\ AccessIdle

KeysNext ==
    \/ \E d \in KeyDocs : KTrigger(d)
    \/ \E d \in KeyDocs : KLock(d)
    \/ \E d \in KeyDocs : KAddUnderLock(d)
    \/ \E d \in KeyDocs : KExpire(d)
    \/ \E d \in KeyDocs : KJob(d)
    \/ \E d \in KeyDocs : KDTrigger(d)
    \/ \E d \in KeyDocs : KDJob(d)

SpecKeys == KeysInit /\ [][KeysNext]_vars

(* ------------------ tasks/search.py: batch throttle ------------------- *)
\* the variables the batch triggers and jobs leave alone
notBatchVars ==
    <<settingsVars, docVars, throttleVars, debounceVars, signalVars, indexVars,
      accessVars, searchVars, serviceVars, keyVars>>

\* item.main_workspace
IsMainWorkspace(i) == i = "m"

\* the timestamp apply_async is given: item.updated_at of the trigger's item
ScopeTimestampNow(i) == now
ScopeTimestamp(i) == bcaller[i].updated_at

\* item.save() inside a transaction: updated_at is read from the clock
BSave(i) ==
    /\ bcaller[i].pc = "idle"
    /\ bcaller[i].saves < MaxItemSaves
    /\ bcaller' = [bcaller EXCEPT ![i] =
          [IdleBCaller EXCEPT !.pc = "saved", !.updated_at = now,
                              !.saves = bcaller[i].saves + 1]]
    /\ now' = now + 1
    /\ UNCHANGED <<notBatchVars, SEARCH_INDEXER_COUNTDOWN, items, batchKey, bwin,
                   bqueue, bwindow, bskips, bindexed>>

\* the transaction commits and trigger_batch_document_indexer(item) begins:
\* return without indexer class, return for a main workspace, else the
\* acquire (positive countdown) or the synchronous task
BCommit(i) ==
    /\ bcaller[i].pc = "saved"
    /\ items' = [items EXCEPT ![i] = bcaller[i].updated_at]
    /\ bcaller' = [bcaller EXCEPT
          ![i].pc = IF IndexingDisabled \/ IsMainWorkspace(i) THEN "idle"
                    ELSE IF SEARCH_INDEXER_COUNTDOWN > 0 THEN "acquire"
                    ELSE "apply",
          ![i].last = IF IndexingDisabled \/ IsMainWorkspace(i)
                      THEN "returned" ELSE "none"]
    /\ UNCHANGED <<notBatchVars, SEARCH_INDEXER_COUNTDOWN, now, batchKey, bwin,
                   bqueue, bwindow, bskips, bindexed>>

\* batch_indexer_throttle_acquire, cache without locks: cache.add alone
BAddPlain(i) ==
    LET ok == AddSucceeds(batchKey)
    IN  /\ bcaller[i].pc = "acquire"
        /\ ~cacheIsRedis
        /\ batchKey' = IF ok THEN "flag" ELSE batchKey
        /\ bwindow' = IF ok
                      THEN [bwindow EXCEPT ![bwin].acq = @ + 1, ![bwin].by = i,
                                           ![bwin].acqTs = bcaller[i].updated_at]
                      ELSE bwindow
        /\ bcaller' = [bcaller EXCEPT ![i].pc = "decide", ![i].res = ok,
                                      ![i].win = bwin]
        /\ UNCHANGED <<notBatchVars, SEARCH_INDEXER_COUNTDOWN, now, items, bwin,
                       bqueue, bskips, bindexed>>

\* batch_indexer_throttle_acquire on RedisCache: enter `with cache.locks(key)`
BAcquireLock(i) ==
    /\ bcaller[i].pc = "acquire"
    /\ cacheIsRedis
    /\ batchKey = "absent"
    /\ batchKey' = "lock"
    /\ bcaller' = [bcaller EXCEPT ![i].pc = "locked"]
    /\ UNCHANGED <<notBatchVars, SEARCH_INDEXER_COUNTDOWN, now, items, bwin,
                   bqueue, bwindow, bskips, bindexed>>

\* the recursive call with atomic=False, under the lock: cache.add
BAddUnderLock(i) ==
    LET ok == AddSucceeds(batchKey)
    IN  /\ bcaller[i].pc = "locked"
        /\ batchKey' = IF ok THEN "flag" ELSE batchKey
        /\ bwindow' = IF ok
                      THEN [bwindow EXCEPT ![bwin].acq = @ + 1, ![bwin].by = i,
                                           ![bwin].acqTs = bcaller[i].updated_at]
                      ELSE bwindow
        /\ bcaller' = [bcaller EXCEPT ![i].pc = "release", ![i].res = ok,
                                      ![i].win = bwin]
        /\ UNCHANGED <<notBatchVars, SEARCH_INDEXER_COUNTDOWN, now, items, bwin,
                       bqueue, bskips, bindexed>>

\* leaving the `with` block releases the lock: its key is deleted
BReleaseLock(i) ==
    /\ bcaller[i].pc = "release"
    /\ batchKey' = IF batchKey = "lock" THEN "absent" ELSE batchKey
    /\ bcaller' = [bcaller EXCEPT ![i].pc = "decide"]
    /\ UNCHANGED <<notBatchVars, SEARCH_INDEXER_COUNTDOWN, now, items, bwin,
                   bqueue, bwindow, bskips, bindexed>>

\* after the acquire: batch_document_indexer_task.apply_async(
\* args=[item.updated_at], countdown=countdown), or skip
BDecide(i) ==
    LET w == bcaller[i].win
    IN  /\ bcaller[i].pc = "decide"
        /\ IF ShouldSchedule(bcaller[i].res)
           THEN /\ bqueue' = bqueue \cup
                      {[ts |-> ScopeTimestamp(i), win |-> w, n |-> bwindow[w].sched + 1]}
                /\ bwindow' = [bwindow EXCEPT ![w].sched = @ + 1,
                                              ![w].ts = ScopeTimestamp(i)]
                /\ bcaller' = [bcaller EXCEPT ![i].pc = "idle",
                                              ![i].last = "scheduled"]
                /\ UNCHANGED bskips
           ELSE /\ bskips' = bskips \cup
                      {[item |-> i, updated_at |-> bcaller[i].updated_at, win |-> w]}
                /\ bcaller' = [bcaller EXCEPT ![i].pc = "idle",
                                              ![i].last = "skipped"]
                /\ UNCHANGED <<bqueue, bwindow>>
        /\ UNCHANGED <<notBatchVars, SEARCH_INDEXER_COUNTDOWN, now, items, batchKey,
                       bwin, bindexed>>

\* countdown 0: document_indexer_task.apply(args=[item.pk]) runs the task in
\* the caller: the row is fetched and pushed
BApply(i) ==
    /\ bcaller[i].pc = "apply"
    /\ bindexed' = IF get_document_indexer = "None" THEN bindexed
                   ELSE [bindexed EXCEPT ![i] = items[i]]
    /\ bcaller' = [bcaller EXCEPT ![i].pc = "idle", ![i].last = "applied"]
    /\ UNCHANGED <<notBatchVars, SEARCH_INDEXER_COUNTDOWN, now, items, batchKey,
                   bwin, bqueue, bwindow, bskips>>

\* the TTL of the batch flag runs out
BExpire ==
    /\ batchKey = "flag"
    /\ bwin < MaxExpire
    /\ batchKey' = "absent"
    /\ bwin' = bwin + 1
    /\ UNCHANGED <<notBatchVars, SEARCH_INDEXER_COUNTDOWN, now, items, bcaller,
                   bqueue, bwindow, bskips, bindexed>>

\* batch_document_indexer_task(timestamp): index() of the rows updated at or
\* after the timestamp, as committed now.  The job was sent with the
\* countdown that is also the TTL of the flag, after the flag was set: it
\* starts when the flag of its window has expired
batch_document_indexer_task(j) ==
    /\ j \in bqueue
    /\ j.win < bwin
    /\ bqueue' = bqueue \ {j}
    /\ bwindow' = [bwindow EXCEPT ![j.win].ran = TRUE]
    /\ bindexed' = IF get_document_indexer = "None" THEN bindexed
                   ELSE [i \in ItemIds |->
                           IF items[i] > 0 /\ items[i] >= j.ts THEN items[i]
                           ELSE bindexed[i]]
    /\ UNCHANGED <<notBatchVars, SEARCH_INDEXER_COUNTDOWN, now, items, bcaller,
                   batchKey, bwin, bskips>>

\* either cache, with or without indexer class, any countdown setting
BatchInit ==
    /\ SEARCH_INDEXER_CLASS \in BOOLEAN /\ indexerConfigured = TRUE
    /\ CoordinatorsIdle
    /\ ServiceIdle /\ KeysIdle
    /\ SEARCH_INDEXER_COUNTDOWN \in 0..1
    /\ now = 1
    /\ items = [i \in ItemIds |-> 0]
    /\ bcaller = [i \in ItemIds |-> IdleBCaller]
    /\ batchKey = "absent"
    /\ bwin = 0
    /\ bqueue = {}
    /\ bwindow = [w \in Windows |-> NoWindow]
    /\ bskips = {}
    /\ bindexed = [i \in ItemIds |-> 0]
    /\ DocsStored /\ SignalsIdle /\ SearchIdle /\ IndexIdle /\ AccessIdle

BatchNext ==
    \/ \E i \in ItemIds : BSave(i)
    \/ \E i \in ItemIds : BCommit(i)
    \/ \E i \in ItemIds : BAddPlain(i)
    \/ \E i \in ItemIds : BAcquireLock(i)
    \/ \E i \in ItemIds : BAddUnderLock(i)
    \/ \E i \in ItemIds : BReleaseLock(i)
    \/ \E i \in ItemIds : BDecide(i)
    \/ \E i \in ItemIds : BApply(i)
    \/ BExpire
    \/ \E j \in bqueue : batch_document_indexer_task(j)

SpecBatch == BatchInit /\ [][BatchNext]_vars

(* ------- properties of the construction and of the HTTP calls ---------- *)
\* C31: the indexer class called with no argument raises the configuration
\* error whenever the index URL, the secret or the query URL is None or
\* empty, and gives an instance exactly when all three are set.
C31_ConstructionChecksThreeSettings ==
    construction.done
    => LET missing == {k \in DOMAIN indexerSettings :
                          indexerSettings[k] \in {"None", ""}}
       IN  /\ missing # {} => /\ construction.error = "ImproperlyConfigured"
                              /\ construction.result = "none"
                              /\ construction.about \in missing
           /\ missing = {} => /\ construction.result = "instance"
                              /\ construction.error = "none"

\* the constructor raised on settings whose query URL alone is empty
C31_Witness ==
    /\ construction.error = "ImproperlyConfigured"
    /\ indexerSettings =
          [AllSet EXCEPT !.SEARCH_INDEXER_QUERY_URL = ""]

\* C33: a call of push or search_query sends exactly one request; when the
\* request gets an error status, no connection or no answer in time the call
\* ends on an exception, and it returns only after a success status.
C33_OneAttemptFailureRaised ==
    /\ http.attempts = http.calls
    /\ http.pc = "returned" => http.transport = "200" /\ http.raised = "none"
    /\ http.pc = "raised" => http.transport # "200" /\ http.raised # "none"
    /\ (http.pc \in {"returned", "raised"} /\ http.transport # "200")
       => http.pc = "raised"

\* a second call was made on the indexer, and
\* it ended on a timeout
C33_Witness ==
    /\ http.calls = 2 /\ http.attempts = 2
    /\ http.pc = "raised" /\ http.transport = "Timeout"

(* ---------------------- properties of the throttle --------------------- *)
\* no trigger is between its acquire and its apply_async for window w of d
NoSchedulePending(d, w) ==
    \A p \in Callers :
        ~(caller[p].doc = d /\ caller[p].win = w /\ caller[p].res
          /\ caller[p].pc \in {"release", "decide"})

\* no trigger and no job of the throttle is under way for d
ThrottleQuiet(d) ==
    /\ \A p \in Callers : caller[p].pc = "idle"
    /\ \A j \in queue : j.doc # d
    /\ \A w \in Workers : worker[w].pc \in {"idle", "done"}

\* C1: in one cooldown window of a document (the life of one throttle flag)
\* the triggers schedule at most one job, and exactly one once the trigger
\* that set the flag has returned; a trigger that finds the flag schedules
\* nothing; the jobs of one window push at most once.
C1_OneJobPerWindow ==
    \A d \in Docs, w \in Windows :
        /\ nSched[d][w] <= 1
        /\ nSched[d][w] <= nAcq[d][w]
        /\ nPush[d][w] <= nSched[d][w]
        /\ (nAcq[d][w] >= 1 /\ NoSchedulePending(d, w)) => nSched[d][w] = 1

\* two triggers of one window have returned, one scheduled the job, the
\* other was skipped, and the job has pushed
C1_Witness ==
    \E p, q \in Callers :
        /\ caller[p].pc = "idle" /\ caller[q].pc = "idle"
        /\ caller[p].last = "scheduled" /\ caller[q].last = "skipped"
        /\ caller[p].doc = caller[q].doc /\ caller[p].win = caller[q].win
        /\ caller[p].doc \in Docs
        /\ nPush[caller[p].doc][caller[p].win] = 1

\* C4: of the callers that run the acquire for one document while its flag
\* is absent, at most one gets a successful result (lock path and plain path):
\* no window counts two successes and no two concurrent callers both hold one.
C4_AtMostOneAcquires ==
    /\ \A d \in Docs, w \in Windows : nAcq[d][w] <= 1
    /\ \A p, q \in Callers :
        (p # q /\ caller[p].doc = caller[q].doc /\ caller[p].win = caller[q].win
         /\ caller[p].pc \in {"release", "decide"}
         /\ caller[q].pc \in {"release", "decide"})
        => ~(caller[p].res /\ caller[q].res)

\* two callers that both found the flag absent have both come back from the
\* acquire: one with success, the other without
C4_Witness ==
    \E p, q \in Callers :
        /\ p # q /\ caller[p].doc = caller[q].doc
        /\ caller[p].pc = "decide" /\ caller[q].pc = "decide"
        /\ caller[p].absent /\ caller[q].absent
        /\ caller[p].res /\ ~caller[q].res

\* C5: an acquire on an absent flag that no other caller contends for
\* returns success and leaves the flag present, on the lock path too.
C5_UncontendedAcquireSucceeds ==
    \A p \in Callers :
        (caller[p].pc = "decide" /\ caller[p].absent /\ caller[p].alone)
        => (caller[p].res /\ caller[p].after = "flag")

\* C6: once the triggers of one cooldown window and the jobs they scheduled
\* are over, the latest push carries the document as of the last trigger.
C6_LastTriggerStatePushed ==
    \A d \in Docs :
        (win[d] = 0 /\ ThrottleQuiet(d) /\ docExists[d] /\ nPush[d][0] >= 1)
        => lastPushVer[d] >= lastTrigVer[d]

\* C8: a throttle job that does not find its document ends at once, without
\* an error and without resolving accesses, serializing or pushing.
C8_DeletedDocumentJobIsNoOp ==
    \A w \in Workers :
        worker[w].fetch = "missing"
        => /\ worker[w].pc = "done"
           /\ worker[w].error = "none"
           /\ ~worker[w].resolved /\ ~worker[w].serialized /\ ~worker[w].pushed

\* a job has run after its document was deleted
C8_Witness ==
    \E w \in Workers :
        /\ worker[w].pc = "done" /\ worker[w].fetch = "missing"
        /\ ~docExists[worker[w].doc]

\* what may not happen in a step taken while no indexer class is set
DisabledTriggerFrame ==
    (~SEARCH_INDEXER_CLASS /\ ~SEARCH_INDEXER_CLASS')
    => /\ \A d \in Docs : throttleKey'[d] = "flag" => throttleKey[d] = "flag"
       /\ queue' \subseteq queue
       /\ nSched' = nSched /\ nAcq' = nAcq
       /\ \A p \in Callers : caller'[p].pc = "idle"

\* what may not happen in a step taken while get_document_indexer() is None
NoIndexerJobFrame ==
    (get_document_indexer = "None" /\ get_document_indexer' = "None")
    => /\ nPush' = nPush /\ lastPushVer' = lastPushVer
       /\ \A w \in Workers : worker'[w].fetch = "none" \/ worker'[w] = worker[w]

\* C10: while no indexer class is set a trigger sets no flag and schedules no
\* job, and a job run while no indexer is available fetches and pushes nothing.
C10_DisabledIsNoOp == [][DisabledTriggerFrame /\ NoIndexerJobFrame]_vars

\* a trigger was called with no indexer class set, and a job has run and
\* ended on the missing indexer
C10_Witness ==
    /\ ~SEARCH_INDEXER_CLASS
    /\ \E p \in Callers : caller[p].last = "disabled"
    /\ \E w \in Workers : worker[w].pc = "done" /\ worker[w].indexer = "None"

\* a step in which the flag of d goes away
FlagRemoved(d) == throttleKey[d] = "flag" /\ throttleKey'[d] # "flag"

\* a step in which a trigger runs its cache.add on the flag of its document
AddOnFlag(p) ==
    /\ caller[p].pc \in {"acquire", "locked"}
    /\ caller'[p].pc \in {"decide", "release"}
    /\ throttleKey[caller[p].doc] = "flag"

\* C34: the flag of a document goes away only when its TTL runs out (the
\* step that ends the cooldown window): no step of a trigger or of a job,
\* started, successful or failed, removes it, and a trigger that finds the
\* flag, after a failed job too, is refused and leaves the flag in place.
C34_FlagRemovedOnlyByExpiry ==
    [][/\ \A d \in Docs :
            FlagRemoved(d)
            => /\ win'[d] = win[d] + 1
               /\ caller' = caller /\ worker' = worker /\ queue' = queue
       /\ \A p \in Callers :
            AddOnFlag(p)
            => /\ ~caller'[p].res
               /\ throttleKey'[caller[p].doc] = "flag"]_vars

\* a trigger that began after the job of its window had failed was refused,
\* and the flag is still there
C34_Witness ==
    \E p \in Callers :
        /\ caller[p].pc = "decide" /\ caller[p].failed /\ ~caller[p].res
        /\ caller[p].win = win[caller[p].doc]
        /\ throttleKey[caller[p].doc] = "flag"

\* a trigger of p was refused by the acquire: it is about to skip, or it has
\* skipped and returned
Rejected(p) ==
    \/ caller[p].pc = "decide" /\ ~caller[p].res
    \/ caller[p].pc = "idle" /\ caller[p].last = "skipped"

\* C35: whenever a trigger was refused as already throttled, a job for the
\* document was scheduled in the cooldown window of the refusal (it is
\* pending or has run), also when the refusal falls between the cache.add and
\* the apply_async of the trigger that set the flag.
C35_RejectedImpliesJob ==
    \A p \in Callers :
        Rejected(p) => nSched[caller[p].doc][caller[p].win] >= 1

\* the same, for the cache without locks and once the trigger that set the
\* flag has called apply_async
C35_RejectedAfterScheduleImpliesJob ==
    \A p \in Callers :
        (Rejected(p) /\ ~cacheIsRedis
         /\ NoSchedulePending(caller[p].doc, caller[p].win))
        => nSched[caller[p].doc][caller[p].win] >= 1

\* a step in which a job asks for the indexer while the indexer class is set
\* and one of its three settings is missing, and gets none
JobStartsPartiallyConfigured(w) ==
    /\ SEARCH_INDEXER_CLASS /\ ~indexerConfigured
    /\ worker[w].pc \in {"idle", "done"}
    /\ worker'[w] # worker[w]
    /\ worker'[w].indexer = "None"

\* C32: with the indexer class set and an endpoint or the secret missing the
\* indexer is not degraded to the disabled state: the job that asks for it
\* ends on the configuration error, and not as it does with no class set.
C32_PartialConfigurationRaises ==
    [][\A w \in Workers :
          JobStartsPartiallyConfigured(w)
          => worker'[w].error = "ImproperlyConfigured"]_vars

(* --------------- properties of the keys of two documents --------------- *)
\* the entries of the cache whose key ends on the primary key of d
OwnKeys(d) == {k \in DOMAIN kcache : k[Len(k)] = d}

\* the flag of d is in the cache
OwnFlagPresent(d) ==
    \E k \in OwnKeys(d) : k[1] = "doc-indexer-throttle-" /\ kcache[k].set

\* C36: a trigger or a job for a document changes only the cache entries
\* under that document's keys and only that document's jobs, and what
\* another document has in the cache does not hold it up: a trigger that
\* does not find its own flag sets it and schedules its job, and the lock of
\* a document is free whenever no entry of that document is in the cache.
C36_Frame ==
    \A k \in DOMAIN kcache : kcache'[k] # kcache[k] => k \in OwnKeys(kact'.doc)

C36_OwnJobsOnly ==
    \A d \in KeyDocs : kjobs'[d] # kjobs[d] => d = kact'.doc

C36_NotSuppressed ==
    \A d \in KeyDocs :
        (kact' = [doc |-> d, op |-> "trigger"] /\ kops' # kops
         /\ ~cacheIsRedis /\ ~OwnFlagPresent(d))
        => /\ kjobs'[d].throttle = kjobs[d].throttle + 1
           /\ OwnFlagPresent(d)'

C36_LockNotHeldUp ==
    \A d \in KeyDocs :
        (cacheIsRedis /\ kpc[d] = "idle" /\ kops < MaxKeyOps /\ ~OwnFlagPresent(d))
        => ENABLED KLock(d)

C36_OwnKeysOnly ==
    /\ []C36_LockNotHeldUp
    /\ [][C36_Frame /\ C36_OwnJobsOnly /\ C36_NotSuppressed]_vars

\* d1 has its flag, a job pending and its counter up, then a trigger for d2
\* was run and has scheduled the job of d2
C36_Witness ==
    /\ ~cacheIsRedis
    /\ kact = [doc |-> "d2", op |-> "trigger"]
    /\ kcache[indexer_throttle_key("d1")].set
    /\ kcache[document_indexer_debounce_key("d1")].val = 1
    /\ kjobs["d1"].throttle = 1
    /\ kjobs["d2"].throttle = 1

(* ------------------ properties of the batch throttle ------------------- *)
\* no trigger is between its acquire and its apply_async for window w
NoBatchSchedulePending(w) ==
    \A i \in ItemIds :
        ~(bcaller[i].win = w /\ bcaller[i].res
          /\ bcaller[i].pc \in {"release", "decide"})

\* C39: with a positive countdown, the triggers of all items together
\* schedule at most one batch job in one cooldown window (exactly one once
\* the trigger that set the flag has returned), the job carries the
\* updated_at of the item whose trigger set the flag, and the trigger of a
\* main workspace never runs the acquire, sets the flag or schedules a job.
C39_OneBatchJobPerWindow ==
    SEARCH_INDEXER_COUNTDOWN > 0
    => /\ \A w \in Windows :
            /\ bwindow[w].acq <= 1
            /\ bwindow[w].sched <= bwindow[w].acq
            /\ (bwindow[w].acq = 1 /\ NoBatchSchedulePending(w))
               => bwindow[w].sched = 1
            /\ bwindow[w].sched = 1 => bwindow[w].ts = bwindow[w].acqTs
            /\ bwindow[w].acq = 1 => ~IsMainWorkspace(bwindow[w].by)
       /\ \A j \in bqueue : j.n = 1 /\ j.ts = bwindow[j.win].acqTs
       /\ \A i \in ItemIds :
            IsMainWorkspace(i)
            => /\ bcaller[i].pc \in {"idle", "saved"}
               /\ bcaller[i].last \in {"none", "returned"}

\* in one window the trigger of one item has scheduled the job with its
\* updated_at, the trigger of another item, saved later, was skipped, and
\* the main workspace was saved and committed as well
C39_Witness ==
    /\ SEARCH_INDEXER_COUNTDOWN > 0
    /\ \E i, k \in ItemIds :
          /\ bcaller[i].last = "scheduled" /\ bcaller[k].last = "skipped"
          /\ bcaller[i].win = bcaller[k].win
          /\ bcaller[i].updated_at < bcaller[k].updated_at
          /\ bwindow[bcaller[i].win].ts = bcaller[i].updated_at
    /\ \E i \in ItemIds : IsMainWorkspace(i) /\ bcaller[i].last = "returned"

\* C40: every item whose trigger was skipped on the batch flag is covered
\* by the job of the window of the skip: the item's updated_at is at or
\* after the timestamp the job is scheduled with, and once that job has run
\* the item has been pushed as it was at the skipped trigger.
C40_SkippedItemsCovered ==
    \A s \in bskips :
        /\ bwindow[s.win].sched >= 1 => s.updated_at >= bwindow[s.win].ts
        /\ bwindow[s.win].ran => bindexed[s.item] >= s.updated_at

\* the same for the items saved after the item whose trigger set the flag
C40_LaterSavesCovered ==
    \A s \in bskips :
        s.updated_at >= bwindow[s.win].acqTs
        => /\ bwindow[s.win].sched >= 1 => s.updated_at >= bwindow[s.win].ts
           /\ bwindow[s.win].ran => bindexed[s.item] >= s.updated_at
(* ---------------------- properties of the debounce --------------------- *)
\* the burst of d is over: every trigger came before the first job, and
\* every job of the burst has run
BurstOver(d) ==
    /\ DebounceQuiet(d)
    /\ burst[d].trig >= 1
    /\ ~burst[d].late
    /\ burst[d].ran = burst[d].trig

\* C2: when the N triggers of a document all come before any of their jobs
\* runs and then all N jobs run, exactly one job pushes and it is the last
\* one to run. Stated for triggers issued one after the other and a document
\* that is still there.
C2_ExactlyLastJobPushes ==
    \A d \in Docs :
        (BurstOver(d) /\ ~burst[d].overlap /\ docExists[d])
        => burst[d].push = {burst[d].trig}

\* C3: the triggers of one burst lead to at most one push in every
\* interleaving of the triggers and the jobs. Stated for a burst during which
\* the counter key does not expire.
C3_AtMostOnePushPerBurst ==
    \A d \in Docs :
        (~burst[d].late /\ ~burst[d].exp) => Cardinality(burst[d].push) <= 1

\* C7: the record pushed for a burst is the document as read when the
\* pushing job executes: it is no older than the document at the start of
\* that job, hence no older than the document at the burst's last trigger,
\* whatever the document was at the job's own trigger.
C7_PushReflectsExecutionTime ==
    \A d \in Docs :
        burst[d].push # {}
        => /\ burst[d].pushVer >= burst[d].pushFloor
           /\ burst[d].pushFloor >= burst[d].pushTv
           /\ ~burst[d].late => burst[d].pushVer >= burst[d].trigVer

\* a burst of two triggers with a save between them: the job scheduled by
\* the first trigger pushed, and pushed the document of the last trigger
C7_Witness ==
    \E d \in Docs :
        /\ burst[d].trig = 2 /\ ~burst[d].late /\ burst[d].push # {}
        /\ burst[d].pushTv < burst[d].pushVer
        /\ burst[d].pushVer = burst[d].trigVer

\* C9: a debounce job that does not find its document raises no error and
\* pushes nothing.
C9_DeletedDocumentJobIsNoOp ==
    \A d \in Docs :
        lastJob[d].fetch = "missing"
        => lastJob[d].error = "none" /\ ~lastJob[d].pushed

\* the jobs of d that apply_async has scheduled and that have not started
RECURSIVE QueuedUpTo(_, _)
QueuedUpTo(d, v) == IF v = 0 THEN 0 ELSE dqueue[d][v] + QueuedUpTo(d, v - 1)
QueuedJobs(d) == QueuedUpTo(d, MaxVer)

\* the counter of d as cache.get would read it; a missing key counts as 0
CounterOf(d) == IF debounceKey[d].set THEN debounceKey[d].val ELSE 0

\* no trigger of d is between its incr_counter and its apply_async, and no
\* job of d is inside decr_counter
CounterSettled(d) ==
    /\ \A p \in Callers : dcaller[p].doc # d
    /\ \A w \in Workers : ~(dworker[w].doc = d /\ dworker[w].pc = "decr_set")

\* C38: the debounce counter of a document is never negative, and whenever
\* no trigger and no decrement of the document is under way it equals the
\* number of its jobs that are scheduled and have not run their decrement.
C38_CounterCountsPendingJobs ==
    \A d \in Docs :
        /\ CounterOf(d) >= 0
        /\ CounterSettled(d) => CounterOf(d) = QueuedJobs(d)

\* the same for the first burst of a document, with triggers issued one
\* after the other and a counter key that does not expire
C38_SequentialTriggersNoExpiry ==
    \A d \in Docs :
        (dTrig = burst[d].trig /\ ~burst[d].overlap /\ ~burst[d].exp)
        => /\ CounterOf(d) >= 0
           /\ CounterSettled(d) => CounterOf(d) = QueuedJobs(d)
(* ------------------- properties of the signal handlers ----------------- *)
\* triggers of d that a connection is about to run
ReadyFor(d) ==
    LET RECURSIVE Sum(_)
        Sum(S) == IF S = {} THEN 0
                  ELSE LET s == CHOOSE x \in S : TRUE
                       IN  Cardinality({i \in 1..Len(session[s].ready) :
                                            session[s].ready[i].doc = d})
                           + Sum(S \ {s})
    IN  Sum(Sessions)

\* every trigger run or about to run stands for a committed save
TriggersFollowCommits ==
    \A d \in Docs : nTriggered[d] + ReadyFor(d) <= nCommitted[d]

\* the session that runs a trigger has no transaction open
TriggerOutsideTransaction ==
    \A s \in Sessions :
        (session'[s].ready # session[s].ready /\ nTriggered' # nTriggered)
        => ~session[s].atomic /\ ~session'[s].atomic

\* a transaction that ends without committing a save leaves nothing to run
RollbackLeavesNoTrigger ==
    \A s \in Sessions :
        (session[s].atomic /\ ~session'[s].atomic /\ nCommitted' = nCommitted)
        => session'[s].ready = <<>> /\ nTriggered' = nTriggered

\* C11: the trigger of a save (counter increment and job scheduling) runs
\* only after the transaction around the save has committed: never while the
\* session's transaction is open, and never for a save that was rolled back.
C11_TriggerOnlyAfterCommit ==
    /\ []TriggersFollowCommits
    /\ [][TriggerOutsideTransaction /\ RollbackLeavesNoTrigger]_vars

\* one trigger waited for its commit and then ran, another one was
\* discarded by a rollback, and every session is back outside a transaction
C11_Witness ==
    /\ nDeferred >= 1
    /\ nDropped >= 1
    /\ \A s \in Sessions : session[s] = IdleSession

\* C12: with an indexer available, every committed save of a Document or of
\* a DocumentAccess, creating or updating, calls the trigger for its document:
\* once the sessions are idle there are as many triggers as committed saves.
C12_EveryCommittedSaveTriggers ==
    (\A s \in Sessions : session[s] = IdleSession)
    => \A d \in Docs : nTriggered[d] = nCommitted[d]
(* ----------------------- properties of index() ------------------------ *)
\* the documents the caller's scope names: all of them without a queryset
InScope ==
    IF scope = "None" THEN {i \in Ids : rows[i].present} ELSE Matching(scope)

\* ceil(n / b)
CeilDiv(n, b) == (n + b - 1) \div b

\* identifiers of the records of the k-th push
PushedIds(k) == {r.id : r \in pushes[k]}

\* number of pushes that carry a record of document i
TimesPushed(i) == Cardinality({k \in 1..Len(pushes) : i \in PushedIds(k)})

\* number of records pushed over all pages
RECURSIVE RecordsIn(_)
RecordsIn(seq) ==
    IF seq = <<>> THEN 0 ELSE Cardinality(Head(seq)) + RecordsIn(Tail(seq))

\* the document has neither a content nor a title
BothEmpty(doc) == doc.content = "" /\ doc.title = "None"

RunReturned == run.pc = "returned"
RunEnded == run.pc \in {"returned", "raised"}

\* C13: a run of index() over N documents in scope with batch size B that
\* returns has made exactly ceil(N / B) pushes of at most B records each.
C13_PushesPerRun ==
    RunReturned
    => /\ Len(pushes) = CeilDiv(Cardinality(InScope), batch_size)
       /\ \A k \in 1..Len(pushes) : Cardinality(pushes[k]) <= batch_size

\* C14: with no concurrent write, a run of index() that returns has pushed
\* every document in scope that has a content or a title exactly once, no
\* other document, and returns the number of records pushed.
C14_EachInScopeDocumentOnce ==
    RunReturned
    => /\ \A i \in Ids :
            TimesPushed(i) = IF i \in InScope /\ ~BothEmpty(rows[i]) THEN 1 ELSE 0
       /\ run.result = RecordsIn(pushes)

\* C15: the batch pushed for a page holds the documents of the page except
\* exactly those with neither content nor title; a document without content
\* is pushed with content "", one without title with title "".
C15_OnlyBothEmptyLeftOut ==
    \A k \in 1..Len(pushes) :
        /\ PushedIds(k) = {i \in pages[k] : ~BothEmpty(rows[i])}
        /\ \A r \in pushes[k] :
            /\ (r.content = "") = (rows[r.id].content = "")
            /\ (r.title = "") = (rows[r.id].title = "None")

\* pushes have carried a document with a title and no content, one with a
\* content and no title, and a page held a document that was left out
C15_Witness ==
    /\ \E k \in 1..Len(pushes) : \E r \in pushes[k] : r.content = "" /\ r.title # ""
    /\ \E k \in 1..Len(pushes) : \E r \in pushes[k] : r.content # "" /\ r.title = ""
    /\ \E k \in 1..Len(pushes) : \E i \in pages[k] : BothEmpty(rows[i])

\* C16: index(queryset) pushes only documents that satisfy the queryset; when
\* no document satisfies it no record is pushed and the count returned is 0.
C16_OnlyScopePushed ==
    /\ \A k \in 1..Len(pushes) : PushedIds(k) \subseteq InScope
    /\ (RunReturned /\ InScope = {})
       => (RecordsIn(pushes) = 0 /\ run.result = 0)

\* a page was fetched in this step: it is empty and the loop ends with the
\* cursor where it was, or the cursor has moved strictly forward
CursorAdvances ==
    pages' # pages
    => IF pages'[Len(pages')] = {}
       THEN run'.pc = "returned" /\ run'.last_id = run.last_id
       ELSE run'.pc = "push" /\ run'.last_id > run.last_id

\* no page follows an empty page
EmptyPageIsLast == \A k \in 1..Len(pages) : pages[k] = {} => k = Len(pages)

\* C17: with no concurrent insert a run of index() over a finite table ends;
\* the cursor grows strictly at every non-empty page and the loop ends at the
\* first empty page.
C17_IndexTerminates ==
    /\ <>RunEnded
    /\ []EmptyPageIsLast
    /\ [][CursorAdvances]_vars

\* a run has returned after two non-empty pages and the empty one
C17_Witness ==
    /\ RunReturned
    /\ Len(pages) >= 3
    /\ pages[1] # {} /\ pages[2] # {} /\ pages[Len(pages)] = {}

\* once push() has raised: index() has raised, and this step fetches no
\* page and pushes nothing, leaving the earlier pushes as they are
PushFailureAborts ==
    run'.error # "none"
    => /\ run'.pc = "raised"
       /\ pages' = pages
       /\ pushes' = pushes

\* C18: when a push fails in index() the error reaches the caller, no later
\* page is fetched or pushed, no count is returned, and the pushes made before
\* stay made.
C18_PushFailureAborts ==
    /\ [](run.error # "none" => (run.pc = "raised" /\ run.result = -1))
    /\ [][PushFailureAborts]_vars

\* a push has failed after an earlier page was pushed, with documents left
C18_Witness ==
    /\ run.pc = "raised"
    /\ Len(pushes) >= 1
    /\ \E i \in InScope : i > run.last_id

\* a page was fetched in this step: all of it lies above the cursor
FetchesAboveCursor ==
    pages' # pages => \A i \in pages'[Len(pages')] : i > run.last_id

\* C19: in a run of index() with rows inserted or deleted between the page
\* fetches no document is pushed twice or fetched twice, and no document at
\* or below the cursor is fetched again.
C19_NoRefetchUnderWrites ==
    /\ [](\A i \in Ids : TimesPushed(i) <= 1)
    /\ [](\A k, l \in 1..Len(pages) : k # l => pages[k] \cap pages[l] = {})
    /\ [][FetchesAboveCursor]_vars

\* a run has returned after two pushes; a row inserted behind the cursor
\* during the run was never fetched, and a row that was pushed has been
\* deleted since
C19_Witness ==
    /\ RunReturned
    /\ Len(pushes) >= 2
    /\ nWrites = 2
    /\ \E i \in Ids :
        /\ rows[i].present /\ i < run.last_id
        /\ \A k \in 1..Len(pages) : i \notin pages[k]
    /\ \E j \in Ids : ~rows[j].present /\ TimesPushed(j) = 1
(* ------------------- properties of access resolution ------------------ *)
\* a is p or an ancestor of p: p starts with the segments of a
AncestorOrSelf(a, p) == Len(a) <= Len(p) /\ \A k \in 1..Len(a) : a[k] = p[k]

\* C20: for every input path the resolution gives exactly the users and the
\* teams granted on the path or on one of its ancestors, empty sets when
\* there are none, and nothing for a path that was not asked for; a grant on
\* a path that is not an ancestor never shows.
C20_ResolvesOwnAndAncestorGrants ==
    resolved.done
    => /\ DOMAIN resolved.map \subseteq paths
       /\ \A p \in paths :
            /\ AccessOf(resolved.map, p, "users") =
                  {r.user : r \in {g \in grants :
                        g.user # "None" /\ AncestorOrSelf(g.path, p)}}
            /\ AccessOf(resolved.map, p, "teams") =
                  {r.team : r \in {g \in grants :
                        g.team # "" /\ AncestorOrSelf(g.path, p)}}

\* grandparent granted to A, parent to B, child to C: the three paths
\* resolve to {A}, {A, B} and {A, B, C}
C20_Witness ==
    /\ resolved.done
    /\ grants = {[path |-> <<1>>, user |-> "A", team |-> ""],
                 [path |-> <<1, 1>>, user |-> "B", team |-> ""],
                 [path |-> <<1, 1, 1>>, user |-> "C", team |-> ""]}
    /\ paths = {<<1>>, <<1, 1>>, <<1, 1, 1>>}
    /\ AccessOf(resolved.map, <<1>>, "users") = {"A"}
    /\ AccessOf(resolved.map, <<1, 1>>, "users") = {"A", "B"}
    /\ AccessOf(resolved.map, <<1, 1, 1>>, "users") = {"A", "B", "C"}

(* ----------------- properties of index() over a tree ------------------- *)
\* the elements of a list
SetOf(seq) == {seq[k] : k \in 1..Len(seq)}

\* the users (field "user") or teams (field "team") granted on the path p
\* or on an ancestor of it, in the whole DocumentAccess table
GrantedOn(p, field, none) ==
    {row[field] : row \in {g \in grants : g[field] # none /\ AncestorOrSelf(g.path, p)}}

\* C21: the users and groups of every record pushed by index() are those
\* granted on the document or on one of its ancestors in the whole access
\* table, whatever the batch size and whichever documents share the page,
\* the ancestor holding the grant included or not.
C21_AccessIndependentOfBatch ==
    \A k \in 1..Len(pushes) : \A r \in pushes[k] :
        /\ SetOf(r.users) = GrantedOn(r.path, "user", "None")
        /\ SetOf(r.groups) = GrantedOn(r.path, "team", "")
        /\ Len(r.users) = Cardinality(SetOf(r.users))
        /\ Len(r.groups) = Cardinality(SetOf(r.groups))

\* a finished run with one document per page in which a pushed document
\* carries a user granted on an ancestor that was fetched in another page
C21_Witness ==
    /\ RunReturned
    /\ batch_size = 1
    /\ \E k \in 1..Len(pushes) : \E r \in pushes[k] : \E g \in grants :
          /\ g.user \in SetOf(r.users)
          /\ g.path # r.path
          /\ \A i \in pages[k] : tree[i].path # g.path

(* ------------- properties of the serialized soft-delete state ---------- *)
\* C22: every pushed record has is_active false when the document's own
\* soft-delete marker is set, whether or not its ancestor marker is set,
\* and true only when neither marker is set.
C22_IsActiveReadsBothMarkers ==
    \A k \in 1..Len(pushes) : \A r \in pushes[k] :
        r.is_active = ~(tree[r.id].deleted_at \/ tree[r.id].ancestors_deleted_at)

\* some ancestor of the document of path p is soft-deleted
UnderDeleted(p) ==
    \E j \in Ids : rows[j].present /\ tree[j].deleted_at /\ Above(tree[j].path, p)

VisitedNotOwned(u) ==
    {i \in Ids : /\ rows[i].present
                 /\ [user |-> u, document |-> i] \in linktraces
                 /\ \A g \in grants : ~(g.user = u /\ g.path = tree[i].path)
                 /\ ~tree[i].deleted_at
                 /\ ~UnderDeleted(tree[i].path)}

\* C30: get_visited_document_ids_of returns exactly the ids of the documents
\* the requester has a LinkTrace for, has no access row of their own on, and
\* that are neither soft-deleted nor under a soft-deleted ancestor, each
\* once; for an anonymous requester it returns nothing.
C30_VisitedNotOwnedNotDeleted ==
    visited.done
    => /\ user # AnonymousUser
          => SetOf(visited.ids) = {ToString(i) : i \in VisitedNotOwned(user)}
       /\ Len(visited.ids) = Cardinality(SetOf(visited.ids))
       /\ user = AnonymousUser => visited.ids = <<>>

\* a call that returned one document for a requester who has also visited
\* a document that is now under a soft-deleted ancestor
C30_Witness ==
    /\ visited.done
    /\ Len(visited.ids) = 1
    /\ \E t \in linktraces :
          /\ t.user = user
          /\ tree[t.document].ancestors_deleted_at
          /\ ~tree[t.document].deleted_at

(* -------------------- properties of the search view -------------------- *)
\* the search has answered, having an indexer / having none
AnsweredFulltext == response.status # 0 /\ get_document_indexer # "None"
AnsweredFallback == response.status # 0 /\ get_document_indexer = "None"

\* x is the id of a document the requester is authorized for and that is
\* neither soft-deleted nor under a soft-deleted ancestor
MaySee(x) ==
    \E i \in authorized :
        /\ x = ToString(i)
        /\ rows[i].present
        /\ ~tree[i].deleted_at
        /\ ~UnderDeleted(tree[i].path)

\* the positions of the external response whose id the requester may see
SeenPositions == {k \in 1..Len(found) : MaySee(found[k]._id)}

\* the m-th id of the external response among those the requester may see
SeenAt(m) ==
    found[CHOOSE k \in SeenPositions :
              Cardinality({j \in SeenPositions : j < k}) = m - 1]._id

\* where the id x stands in the external response
PlaceOf(x) == CHOOSE k \in 1..Len(found) : found[k]._id = x

\* the request asks for a first page that has room for n results
WholeListAsked(n) == request.page = 1 /\ n <= request.page_size

\* C25: the ids returned by a search through the external index are ids of
\* its response that the requester is authorized for, in the order in which
\* the index returned them; a page with room for all of them holds them all.
C25_ExternalOrderPreserved ==
    (AnsweredFulltext /\ response.status = 200)
    => /\ \A a \in 1..Len(response.results) :
             /\ \E k \in SeenPositions : found[k]._id = response.results[a]
             /\ \A b \in 1..Len(response.results) :
                   a < b => PlaceOf(response.results[a]) < PlaceOf(response.results[b])
       /\ WholeListAsked(Cardinality(SeenPositions))
          => Len(response.results) = Cardinality(SeenPositions)

\* the index returned three ids with an unauthorized one between two
\* authorized ones, the higher id first, and the answer is those two in
\* that order
C25_Witness ==
    /\ AnsweredFulltext
    /\ Len(found) = 3
    /\ ~MaySee(found[2]._id)
    /\ \E i, j \in Ids : /\ i > j
                          /\ found[1]._id = ToString(i)
                          /\ found[3]._id = ToString(j)
                          /\ response.results = <<ToString(i), ToString(j)>>

C27_PagesSliceFilteredList ==
    (AnsweredFulltext /\ response.status = 200)
    => LET n == Cardinality(SeenPositions)
           start == (request.page - 1) * request.page_size
       IN  /\ Len(response.results) =
                 IF n - start < request.page_size THEN n - start
                 ELSE request.page_size
           /\ \A k \in 1..Len(response.results) :
                 response.results[k] = SeenAt(start + k)
           /\ response.count = n

\* a second page that holds an id, after a response whose first id the
\* requester may not see
C27_Witness ==
    /\ AnsweredFulltext
    /\ response.status = 200
    /\ request.page = 2
    /\ response.results # <<>>
    /\ Len(found) = 3
    /\ ~MaySee(found[1]._id)

\* C37: whatever page and page size a search through the external index
\* asks for, the view sent exactly one query, for page_number 1 and page_size
\* 100, and the page asked for is cut locally out of the reconciled response.
C37_OneQueryFirstHundred ==
    AnsweredFulltext
    => /\ Len(response.query) = 1
       /\ response.query[1].page_number = 1
       /\ response.query[1].page_size = 100
       /\ response =
             [Paginate(Reconcile(IdsOfResponse(found), AllowedIds),
                       request.page, request.page_size)
                EXCEPT !.query = response.query]

\* a request for the second page of size 2 was answered with results
C37_Witness ==
    /\ AnsweredFulltext
    /\ request.page = 2 /\ request.page_size = 2
    /\ response.status = 200 /\ response.results # <<>>
    /\ Len(response.query) = 1

\* the documents a search without indexer is to return
TitleMatchesOf(text) ==
    {i \in authorized :
        /\ rows[i].present
        /\ \E o \in 0..(Len(corpus[i].title) - Len(text)) :
              \A k \in 1..Len(text) : Lower(corpus[i].title[o + k]) = Lower(text[k])}

\* the number of results the request has in all
ResultCount ==
    IF get_document_indexer # "None" THEN Cardinality(SeenPositions)
    ELSE Cardinality(TitleMatchesOf(request.q))

\* the first result of the page asked for lies beyond the last result
BeyondCount == (request.page - 1) * request.page_size >= ResultCount

\* C28 as stated: a request for a page beyond the result count is answered
\* not-found and never by an empty page, with an indexer and without.
C28_BeyondCountIsNotFound ==
    response.status # 0
    => /\ BeyondCount => response.status = 404
       /\ response.status = 200 => response.results # <<>>

\* C28, amended: a request for a page after the first that lies beyond the
\* result count is answered not-found, with an indexer and without; the
\* first page of a search with no result is an empty page with count 0, and
\* no other answer is an empty page.
C28_BeyondLastPageIsNotFound ==
    response.status # 0
    => /\ response.status = 404 <=> (request.page > 1 /\ BeyondCount)
       /\ (response.status = 200 /\ response.results = <<>>)
          => (request.page = 1 /\ ResultCount = 0 /\ response.count = 0)

\* page 2 of two results at page size 2 was asked for and answered
\* not-found
C28_Witness ==
    /\ response.status = 404
    /\ ResultCount = 2
    /\ request.page = 2
    /\ request.page_size = 2

\* the document of string id x
DocumentOfId(x) == CHOOSE i \in Ids : ToString(i) = x

\* C29: with no query endpoint the search sends no query to the external
\* index and computes no visited ids; its answer holds ids of documents the
\* requester is authorized for whose title contains the text, whatever the
\* case, the most recently updated first, and all of them when the page has
\* room.
C29_FallbackFiltersTitles ==
    AnsweredFallback
    => /\ response.query = <<>>
       /\ ~visited.done
       /\ \A a \in 1..Len(response.results) :
             /\ DocumentOfId(response.results[a]) \in TitleMatchesOf(request.q)
             /\ \A b \in 1..Len(response.results) :
                   a < b => corpus[DocumentOfId(response.results[a])].updated_at
                            > corpus[DocumentOfId(response.results[b])].updated_at
       /\ response.status = 200
          => response.count = Cardinality(TitleMatchesOf(request.q))
       /\ WholeListAsked(Cardinality(TitleMatchesOf(request.q)))
          => Len(response.results) = Cardinality(TitleMatchesOf(request.q))

\* an answer with two documents, the one with the lower id updated later,
\* one of them titled with the text in upper case, while a third authorized
\* document has a title without the text
C29_Witness ==
    /\ AnsweredFallback
    /\ Len(response.results) = 2
    /\ DocumentOfId(response.results[1]) < DocumentOfId(response.results[2])
    /\ \E a \in 1..2 :
          corpus[DocumentOfId(response.results[a])].title = <<"X", "A", "B">>
    /\ \E i \in authorized : corpus[i].title = <<"b", "a">>
====
